---- MODULE Spec2Model ----
(***************************************************************************)
(* Halal-Al-Scanner: the client-side scan pipeline (App component, the     *)
(* backend-proxy service, the /api/analyze endpoint and the user_stats     *)
(* record), the scan history store, and the camera session hook.           *)
(*                                                                         *)
(* React closures are modelled as they behave: an async handler reads the  *)
(* state of the render in which it was invoked (captured in its task       *)
(* record); functional updates (setX(prev => ...)) and refs read the       *)
(* current state.                                                          *)
(*                                                                         *)
(* A handler is split at its awaits. The endpoint's handler runs as one    *)
(* step (Serve), and so does the select of initSupabase's fetchUserStats   *)
(* with what it applies (BootStats); the fetchUserStats of a scan attempt  *)
(* is split into the select and its application.                           *)
(*                                                                         *)
(* Specifications: Spec (the pipeline, first run of the app), SpecQuota    *)
(* (the pipeline for a user at the client's limit), SpecHistory (the text  *)
(* pipeline over a history of 29 items), SpecMigrate (the history load     *)
(* over the persisted histories), SpecCam (one camera session: the stream, *)
(* the shutter and its captures, the system camera), SpecDownscale (one    *)
(* call of downscaleImageIfNeeded), SpecCompress (compressImage for the    *)
(* request and for the thumbnail), SpecEnhance (one call of enhanceImage), *)
(* SpecLoad (the start over damaged persisted state), SpecRestart (the     *)
(* text pipeline over two runs of the app), SpecImages (the pending image  *)
(* list), SpecTimers (the pipeline with the unmount of the component),     *)
(* SpecRequest (the image attempts and what they send), SpecLive (the      *)
(* pipeline under fair scheduling of the pending work), SpecEnhanceData    *)
(* (enhanceImage on the RGBA data), SpecServer (the endpoint's handler     *)
(* split at its awaits, two requests of one identity).                     *)
(***************************************************************************)
EXTENDS Integers, Sequences, FiniteSets, TLC

(* ------------------------------------------------------------------ *)
(* Program constants                                                   *)
(* ------------------------------------------------------------------ *)
FREE_SCANS_LIMIT == 20
MAX_IMAGES_PER_SCAN == 4
HISTORY_LIMIT == 30
SERVER_FREE_LIMIT == 3

(* ------------------------------------------------------------------ *)
(* Bounds of the model                                                 *)
(* ------------------------------------------------------------------ *)
\* scan attempts (image or text) that pass preflight in one behaviour
MaxScans == 2
\* images captured in one behaviour
MaxCaptures == 1
\* runs of the app (process starts) in one behaviour
MaxRuns == 2
\* images captured or selected in one behaviour of the image list alone
MaxPicked == 5
\* files selected in one behaviour of the image attempts alone
MaxSent == 2
\* ticks of one progress timer
MaxTicks == 1
\* items of a persisted history given to the migration, and ingredients of one item
MaxItems == 2
MaxIngredients == 2
\* the largest zoom a camera reports (capabilities.zoom.max)
MaxZoom == 3
\* presses of the shutter, and calls of captureImage, in one camera session
MaxPresses == 2
MaxRequests == 3
\* openings of the system camera in one camera session
MaxNative == 2
\* the largest width and height of an image given to downscaleImageIfNeeded,
\* and the largest maxWidth and maxHeight
MaxDim == 12
MaxLimit == 4
\* the largest side of an image given to compressImage, in thousands of pixels
MaxThousands == 4
\* the largest width and height of an image given to enhanceImage
MaxGrid == 3
\* the largest width and height of an RGBA image given to enhanceImage
MaxDataW == 4
MaxDataH == 3

VARIABLES
  phase,                 \* "new" before the mount effect, "running" after
  images,                \* App.images: pending images (capture ordinals)
  isCameraOpen,
  showTextModal,
  showSubscriptionModal,
  isLoading,
  progress,
  result,                \* App.result (NoResult = null)
  error,                 \* App.error ("" = null)
  useLowQuality,
  history,               \* App.history (in memory)
  isPremium,
  scanCount,
  userId,                \* "" = null
  progressInterval,      \* progressInterval.current: id of the last timer set, 0 = null
  timers,                \* the interval timers still running: [id, kind, n], n = its ticks so far
  storedHistory,         \* localStorage 'halalScannerHistory'
  cachedPremium,         \* secureStorage 'isPremium'
  dbRow,                 \* the user_stats record of the identity
  tasks,                 \* the async handler invocations, by scan ordinal
  boot,                  \* initSupabase: its position
  netCalls,              \* fetches of /api/analyze issued
  captures,              \* images captured so far
  last,                  \* the step taken last, see Op
  reads,                 \* handleFileSelect: the batches of files being read
  cam,                   \* the camera session (useCamera)
  dsc,                   \* a call of downscaleImageIfNeeded: its arguments and what it resolves to
  util,                  \* a call of compressImage or enhanceImage: its arguments and what it resolves to
  secure,                \* the secureStorage entries as stored: 'isPremium' (how it reads), 'scanCount'
  run                    \* the run of the app: its ordinal, and the local increments made so far

appVars == <<phase, images, isCameraOpen, showTextModal, showSubscriptionModal,
             isLoading, progress, result, error, useLowQuality, history,
             isPremium, scanCount, userId, progressInterval, timers,
             storedHistory, cachedPremium, dbRow, tasks, boot, netCalls,
             captures, last, reads, dsc, util, secure, run>>

vars == <<phase, images, isCameraOpen, showTextModal, showSubscriptionModal,
          isLoading, progress, result, error, useLowQuality, history,
          isPremium, scanCount, userId, progressInterval, timers,
          storedHistory, cachedPremium, dbRow, tasks, boot, netCalls,
          captures, last, reads, cam, dsc, util, secure, run>>

(* ------------------------------------------------------------------ *)
(* Values                                                              *)
(* ------------------------------------------------------------------ *)
HALAL == "HALAL"
DOUBTFUL == "DOUBTFUL"

\* An entry of ingredientsDetected: a plain name (the legacy shape, tag "str")
\* or an object {name, status} (tag "obj").
PlainName(n) == [tag |-> "str", name |-> n, status |-> ""]
Detail(n, s) == [tag |-> "obj", name |-> n, status |-> s]

\* ScanResult. scan identifies the attempt that produced it (0 = none,
\* negative = a result of an earlier run of the app).
MkResult(s, c, r, ing) == [scan |-> s, confidence |-> c, reason |-> r, ingredients |-> ing]
NoResult == MkResult(0, 0, "", <<>>)

\* ScanHistoryItem {id, date, result, thumbnail}; id and date are the time of
\* the save, here the ordinal of the attempt.
MkItem(i, res, th) == [id |-> i, result |-> res, thumbnail |-> th]

NoRow == [exists |-> FALSE, scan_count |-> 0, is_premium |-> FALSE]
Row(c, p) == [exists |-> TRUE, scan_count |-> c, is_premium |-> p]

Take(s, n) == IF Len(s) <= n THEN s ELSE SubSeq(s, 1, n)

\* what the last step was: the handler (for those the properties name, "-"
\* otherwise), the localStorage.setItem calls of its saveToHistory and whether
\* an exception left saveToHistory
Op(name) == [op |-> name, writes |-> 0, threw |-> FALSE]

(* ------------------------------------------------------------------ *)
(* HistoryStore                                                        *)
(* ------------------------------------------------------------------ *)
\* The mount effect's migration of one persisted item: a non-empty
\* ingredientsDetected whose first entry is a string is mapped, entry by
\* entry, to {name, status: HALAL}.
MigrateEntry_Doubtful(e) == Detail(e.name, DOUBTFUL)
MigrateEntry(e) == Detail(e.name, HALAL)

NeedsMigration(item) ==
  /\ Len(item.result.ingredients) > 0
  /\ item.result.ingredients[1].tag = "str"

MigrateItem(item) ==
  IF NeedsMigration(item)
  THEN [item EXCEPT !.result.ingredients =
          [i \in 1..Len(item.result.ingredients) |-> MigrateEntry(item.result.ingredients[i])]]
  ELSE item

MigrateHistory(items) == [i \in 1..Len(items) |-> MigrateItem(items[i])]

\* localStorage 'halalScannerHistory': absent, or the JSON of a list of items;
\* or, written by something else, a string that is not JSON, or the JSON of a
\* value that is not a list.
Absent == [state |-> "absent", items |-> <<>>]
Stored(items) == [state |-> "ok", items |-> items]
Unparsable == [state |-> "unparsable", items |-> <<>>]
NotAList == [state |-> "notlist", items |-> <<>>]

\* Entries of a persisted list that are not items: null, and {} (an object
\* without a result).
NullItem == MkItem(0, MkResult(0, 0, "<null>", <<>>), 0)
EmptyItem == MkItem(0, MkResult(0, 0, "<no result>", <<>>), 0)
IsNull(item) == item = NullItem
WellFormed(item) == item # NullItem /\ item # EmptyItem

\* History load of the mount effect: the in-memory history after it.
\* JSON.parse throws on what is not JSON, parsedHistory.map on what is not a
\* list, item.result on null; the catch leaves the history as it is.
LoadHistory(st, hist) ==
  IF st.state = "ok" /\ \A i \in 1..Len(st.items) : ~IsNull(st.items[i])
  THEN MigrateHistory(st.items)
  ELSE hist

\* [newItem, ...history].slice(0, 30)
Prepend(item, hist) == Take(<<item>> \o hist, HISTORY_LIMIT)

\* saveToHistory(scanResult, thumbnail) run against the history `hist` its
\* closure holds; thumbnail 0 = undefined. w1ok / w2ok: whether the first and the
\* second localStorage.setItem succeed (they throw when the quota is exceeded).
\* Gives the in-memory history, the persisted value, the number of setItem
\* calls and whether an exception leaves the function.
SaveToHistory_NoRetry(hist, st, scanResult, thumbnail, w1ok, w2ok) ==
  LET updatedHistory == Prepend(MkItem(scanResult.scan, scanResult, thumbnail), hist)
  IN  [history |-> updatedHistory,
       stored |-> IF w1ok THEN Stored(updatedHistory) ELSE st,
       writes |-> 1, threw |-> FALSE]
SaveToHistory(hist, st, scanResult, thumbnail, w1ok, w2ok) ==
  LET newItem == MkItem(scanResult.scan, scanResult, thumbnail)
      updatedHistory == Prepend(newItem, hist)
      fallbackItem == [newItem EXCEPT !.thumbnail = 0]
      fallbackHistory == Prepend(fallbackItem, hist)
  IN  IF w1ok
      THEN [history |-> updatedHistory, stored |-> Stored(updatedHistory), writes |-> 1, threw |-> FALSE]
      ELSE IF thumbnail # 0
           THEN [history |-> fallbackHistory,
                 stored |-> IF w2ok THEN Stored(fallbackHistory) ELSE st,
                 writes |-> 2, threw |-> FALSE]
           ELSE [history |-> updatedHistory, stored |-> st, writes |-> 1, threw |-> FALSE]

(* ------------------------------------------------------------------ *)
(* Entitlement gate                                                    *)
(* ------------------------------------------------------------------ *)
\* !isPremium && scanCount >= FREE_SCANS_LIMIT
GateDenied_Above(premium, count) == ~premium /\ count > FREE_SCANS_LIMIT
GateDenied_AnyPlan(premium, count) == count >= FREE_SCANS_LIMIT
GateDenied(premium, count) == ~premium /\ count >= FREE_SCANS_LIMIT

\* The endpoint's gate: !isPremium && currentCount >= 3 && !dbError
ServerDenied(premium, count, dbError) == ~premium /\ count >= SERVER_FREE_LIMIT /\ ~dbError

\* scanResult.confidence === 0: a reported failure
IsFailure_NeverFailure(scanResult) == FALSE
IsFailure(scanResult) == scanResult.confidence = 0

(* ------------------------------------------------------------------ *)
(* Tasks: the invocations of handleAnalyze / handleAnalyzeText          *)
(* ------------------------------------------------------------------ *)
Scans == 1..MaxScans

\* sent: the request of the attempt as fetch was given it
NoRequest == [userId |-> "", images |-> <<>>, text |-> FALSE]
IdleTask == [pc |-> "idle", kind |-> "", uid |-> "", hist |-> <<>>, imgs |-> <<>>,
             status |-> 0, res |-> NoResult, snap |-> NoRow, snapKind |-> "",
             sent |-> NoRequest]

\* analyzeImage(base64Images, userId, enhance, enableImageDownscaling): every
\* image is processed in its place (Promise.all over map) and the request is
\* the header x-user-id (userId || 'anonymous') and the body {images}
ImageRequest(base64Images, uid) ==
  [userId |-> IF uid = "" THEN "anonymous" ELSE uid,
   images |-> [i \in 1..Len(base64Images) |-> base64Images[i]],
   text |-> FALSE]
\* analyzeText(text, userId): the header x-user-id and the body {text}
TextRequest(uid) ==
  [userId |-> IF uid = "" THEN "anonymous" ELSE uid, images |-> <<>>, text |-> TRUE]
\* an invocation that has returned holds nothing any more
DoneTask == [IdleTask EXCEPT !.pc = "done"]

\* the ordinal the next attempt gets
Started == {t \in Scans : tasks[t].pc # "idle"}
NextScan == Cardinality(Started) + 1
CanStart == NextScan \in Scans

\* a request is in flight from the fetch until its response is delivered
InFlightPcs == {"fetch", "resp"}
InFlight == {t \in Scans : tasks[t].pc \in InFlightPcs}
\* an attempt is pending from the handler's start until its finally block
PendingPcs == InFlightPcs \cup {"compress", "refreshReq", "refreshResp"}
Pending == {t \in Scans : tasks[t].pc \in PendingPcs}

HasResult == result.scan # 0
NoOverlay == ~isCameraOpen /\ ~showTextModal /\ ~showSubscriptionModal
Running == phase = "running"

\* if (progressInterval.current) clearInterval(progressInterval.current)
ClearCurrent_Keep(tm, ref) == tm
ClearCurrent(tm, ref) == {x \in tm : x.id # ref}

(* ------------------------------------------------------------------ *)
(* Initial states                                                      *)
(* ------------------------------------------------------------------ *)
\* An image as downscaleImageIfNeeded sees it: the dimensions the decoder
\* reports and the encoded string ("src": the string given; "canvas": one
\* that canvas.toDataURL('image/jpeg', q) made).
Img(w, h, enc) == [w |-> w, h |-> h, enc |-> enc]
NoCall == [pc |-> "none", img |-> Img(0, 0, ""), maxWidth |-> 0, maxHeight |-> 0,
           loads |-> FALSE, ctx |-> FALSE, out |-> Img(0, 0, "")]

\* No call of compressImage or enhanceImage.
NoUtil == [pc |-> "none"]

\* A secureStorage entry as localStorage holds it: present (getItem gives a
\* non-empty string), and whether atob, decodeURIComponent and JSON.parse
\* accept what they are given.
Layers(present, b64, uri, json) == [present |-> present, b64 |-> b64, uri |-> uri, json |-> json]
Intact == Layers(TRUE, TRUE, TRUE, TRUE)
Missing == Layers(FALSE, TRUE, TRUE, TRUE)

\* The entries of an installation nobody tampered with: 'isPremium' reads as
\* cachedPremium, 'scanCount' was never written.
SecureIntact == [isPremium |-> Intact, scanCount |-> Missing, scanCountValue |-> 0]

\* The first run of the app. A later run records the scanCount and the userId
\* the run before it ended with.
\* language: the language the run starts with (localStorage
\* 'halalScannerLang', Arabic when there is none)
Languages == {"ar", "en"}
FirstRun == [n |-> 1, count |-> 0, uid |-> "", language |-> "ar"]

\* A persisted item of an earlier run: its results were successes.
OldItem(k) == MkItem(0 - k, MkResult(0 - 1, 90, "ok", <<Detail("water", HALAL)>>), 0)
LegacyItem(k) == MkItem(0 - k, MkResult(0 - 2, 90, "ok", <<PlainName("sugar"), PlainName("gelatin")>>), 0)
OldHistory(n) == [i \in 1..n |-> OldItem(i)]

\* A first run of the app.
InitStored == {Absent}
\* No record yet, or a free user one scan below the endpoint's limit.
InitRows == {NoRow, Row(SERVER_FREE_LIMIT - 1, FALSE)}

\* useCamera after its first render, before its mount effect: the refs and
\* states hold their initial values. native: Capacitor.isNativePlatform();
\* mediaDevices: navigator.mediaDevices.getUserMedia exists. Streams are 1 (the
\* first request's) and 2 (the fallback's); 0 = null. live: the streams with
\* tracks not stopped; stoppedLate: the streams startCamera stopped itself on
\* finding the owner unmounted. ready: the video element has a frame
\* (readyState >= HAVE_CURRENT_DATA). shots: the pending 100 ms timeouts of
\* captureImage, each with its shouldClose. The Camera component's refs and
\* state: pressTimer (the id pressTimer.current holds, 0 = null), pressTimers
\* (the pending long-press timeouts, each with the isCapturing of the render
\* whose captureImage its callback closes over), isLongPressHandled,
\* showAddedToast, closePending (the 100 ms timeout of onClose). down, reqs and
\* req describe the user's press: one is in progress, the captureImage calls
\* made since it started, the kind of the last call. delivered counts the
\* onCapture calls, nativePending the Camera.getPhoto calls not yet settled.
\* asked: the constraints of the getUserMedia calls made, in order; failed:
\* how many of them were rejected; caps: what the track of the stream held
\* offers (torch, and zoom.max, 0 = no zoom).
NoCaps == [torch |-> FALSE, zoomMax |-> 0]
CamSession(native, mediaDevices) ==
  [pc |-> "new", native |-> native, mediaDevices |-> mediaDevices, mounted |-> TRUE,
   streamRef |-> 0, video |-> 0, live |-> {}, stoppedLate |-> {}, error |-> "",
   hasTorch |-> FALSE, isTorchOn |-> FALSE, hasZoom |-> FALSE, zoomLevel |-> 1, maxZoom |-> 1,
   ready |-> FALSE, isCapturing |-> FALSE, shots |-> {}, nshots |-> 0, nreq |-> 0,
   pressTimer |-> 0, pressTimers |-> {}, presses |-> 0, isLongPressHandled |-> FALSE,
   showAddedToast |-> FALSE, closePending |-> FALSE, closeDone |-> FALSE,
   down |-> FALSE, reqs |-> 0, req |-> "",
   delivered |-> 0, natives |-> 0, nativePending |-> 0,
   asked |-> <<>>, failed |-> 0, caps |-> NoCaps]

CamInit == CamSession(FALSE, TRUE)

InitApp ==
  /\ phase = "new"
  /\ images = <<>>
  /\ isCameraOpen = FALSE
  /\ showTextModal = FALSE
  /\ showSubscriptionModal = FALSE
  /\ isLoading = FALSE
  /\ progress = 0
  /\ result = NoResult
  /\ error = ""
  /\ useLowQuality = FALSE
  /\ history = <<>>
  /\ isPremium = FALSE
  /\ scanCount = 0
  /\ userId = ""
  /\ progressInterval = 0
  /\ timers = {}
  /\ tasks = [t \in Scans |-> IdleTask]
  /\ boot = [pc |-> "idle"]
  /\ netCalls = 0
  /\ captures = 0
  /\ last = Op("-")
  /\ reads = <<>>

Init ==
  /\ InitApp
  /\ dsc = NoCall
  /\ util = NoUtil
  /\ secure = SecureIntact
  /\ run = FirstRun
  /\ storedHistory \in InitStored
  /\ dbRow \in InitRows
  /\ cachedPremium \in {FALSE, dbRow.is_premium}
  /\ cam = CamInit

\* A user at the client's limit, free or premium.
QuotaRows == {Row(FREE_SCANS_LIMIT, FALSE), Row(FREE_SCANS_LIMIT, TRUE)}

\* Persisted histories as earlier and current versions of the app wrote them:
\* each item's ingredientsDetected is empty, a list of names, or a list of
\* {name, status}.
Names == {"sugar", "gelatin"}
Lists(S) == UNION {[1..n -> S] : n \in 1..MaxIngredients}
PlainLists == Lists({PlainName(n) : n \in Names})
DetailLists == Lists({Detail(n, DOUBTFUL) : n \in Names})
IngredientLists == {<<>>} \cup PlainLists \cup DetailLists
StoredItem(k, ing) == MkItem(0 - k, MkResult(0 - k, 90, "ok", ing), 0)
StoredHistories ==
  UNION {{[i \in 1..n |-> StoredItem(i, ings[i])] : ings \in [1..n -> IngredientLists]} :
           n \in 0..MaxItems}

InitMigrate ==
  /\ InitApp
  /\ dsc = NoCall
  /\ util = NoUtil
  /\ secure = SecureIntact
  /\ run = FirstRun
  /\ storedHistory \in {Absent} \cup {Stored(h) : h \in StoredHistories}
  /\ dbRow = NoRow
  /\ cachedPremium = FALSE
  /\ cam = CamInit

InitHistory ==
  /\ InitApp
  /\ dsc = NoCall
  /\ util = NoUtil
  /\ secure = SecureIntact
  /\ run = FirstRun
  /\ storedHistory = Stored(OldHistory(HISTORY_LIMIT - 1))
  /\ dbRow \in InitRows
  /\ cachedPremium \in {FALSE, dbRow.is_premium}
  /\ cam = CamInit

InitQuota ==
  /\ InitApp
  /\ dsc = NoCall
  /\ util = NoUtil
  /\ secure = SecureIntact
  /\ run = FirstRun
  /\ storedHistory = Absent
  /\ dbRow \in QuotaRows
  /\ cachedPremium \in {FALSE, dbRow.is_premium}
  /\ cam = CamInit

(* ------------------------------------------------------------------ *)
(* App: mount effect and bootstrap (initSupabase)                       *)
(* ------------------------------------------------------------------ *)
\* secureStorage.getItem(key, defaultValue) on an entry that would decode to
\* `value`: the default when there is no entry, and when atob,
\* decodeURIComponent or JSON.parse throws (the catch).
GetItem(entry, value, defaultValue) ==
  IF ~entry.present THEN defaultValue
  ELSE IF ~entry.b64 THEN defaultValue
  ELSE IF ~entry.uri THEN defaultValue
  ELSE IF ~entry.json THEN defaultValue
  ELSE value

\* secureStorage.setItem('isPremium', v): the entry is written anew
SetPremiumEntry(sec) == [sec EXCEPT !.isPremium = Intact]

\* The mount effect: loads and migrates the history, exposes the cached
\* premium flag, starts initSupabase.
Mount ==
  /\ phase = "new"
  /\ phase' = "running"
  /\ history' = LoadHistory(storedHistory, history)
  /\ isPremium' = GetItem(secure.isPremium, cachedPremium, FALSE)
  /\ boot' = [boot EXCEPT !.pc = "auth"]
  /\ last' = Op("-")
  /\ UNCHANGED <<images, isCameraOpen, showTextModal, showSubscriptionModal, isLoading,
                 progress, result, error, useLowQuality, scanCount, userId,
                 progressInterval, timers, storedHistory, cachedPremium, dbRow, tasks,
                 netCalls, captures, reads, cam, dsc, util, secure, run>>

\* getSession / signInAnonymously resolve: an identity, the offline fallback
\* (scanCount from secureStorage 'scanCount', which nothing writes), or a
\* thrown error that the catch swallows.
BootAuth ==
  /\ boot.pc = "auth"
  /\ \E out \in {"uid", "offline", "throw"} :
       /\ userId' = IF out = "uid" THEN "u1" ELSE userId
       /\ scanCount' = IF out = "offline"
                       THEN GetItem(secure.scanCount, secure.scanCountValue, 0)
                       ELSE scanCount
       /\ boot' = [boot EXCEPT !.pc = IF out = "uid" THEN "stats" ELSE "done"]
       /\ last' = Op(IF out = "offline" THEN "BootOffline" ELSE "-")
  /\ UNCHANGED <<phase, images, isCameraOpen, showTextModal, showSubscriptionModal, isLoading,
                 progress, result, error, useLowQuality, history, isPremium,
                 progressInterval, timers, storedHistory, cachedPremium, dbRow, tasks,
                 netCalls, captures, reads, cam, dsc, util, secure, run>>

\* The select of fetchUserStats reads the record: data, PGRST116 (no row) or
\* another error.
ReadStats(row, failed) ==
  IF failed THEN [snap |-> NoRow, snapKind |-> "error"]
  ELSE IF row.exists THEN [snap |-> row, snapKind |-> "data"]
  ELSE [snap |-> NoRow, snapKind |-> "norow"]

\* What fetchUserStats applies once the select has resolved.
StatsCount(kind, snap, count) ==
  IF kind = "data" THEN snap.scan_count ELSE IF kind = "norow" THEN 0 ELSE count
StatsPremium(kind, snap, premium) == IF kind = "data" THEN snap.is_premium ELSE premium

\* fetchUserStats of initSupabase: the select and what it applies
BootStats ==
  /\ boot.pc = "stats"
  /\ \E failed \in BOOLEAN :
       LET r == ReadStats(dbRow, failed)
       IN  /\ scanCount' = StatsCount(r.snapKind, r.snap, scanCount)
           /\ isPremium' = StatsPremium(r.snapKind, r.snap, isPremium)
           /\ cachedPremium' = StatsPremium(r.snapKind, r.snap, cachedPremium)
           /\ secure' = IF r.snapKind = "data" THEN SetPremiumEntry(secure) ELSE secure
           /\ last' = Op(IF failed THEN "BootStatsFailed" ELSE "-")
  /\ boot' = [boot EXCEPT !.pc = "done"]
  /\ UNCHANGED <<phase, images, isCameraOpen, showTextModal, showSubscriptionModal, isLoading,
                 progress, result, error, useLowQuality, history, userId,
                 progressInterval, timers, storedHistory, dbRow, tasks,
                 netCalls, captures, reads, cam, dsc, util, run>>

(* ------------------------------------------------------------------ *)
(* App: the controls                                                   *)
(* ------------------------------------------------------------------ *)
RemoveAt(s, i) == [j \in 1..(Len(s) - 1) |-> IF j < i THEN s[j] ELSE s[j + 1]]

\* openCamera: offered on the home screen and as "add image" in the gallery
\* (no result shown, fewer than MAX_IMAGES_PER_SCAN images).
OpenCamera ==
  /\ Running /\ NoOverlay
  /\ ~HasResult /\ Len(images) < MAX_IMAGES_PER_SCAN
  /\ IF GateDenied(isPremium, scanCount)
     THEN showSubscriptionModal' = TRUE /\ UNCHANGED isCameraOpen
     ELSE isCameraOpen' = TRUE /\ UNCHANGED showSubscriptionModal
  /\ last' = Op("OpenCamera")
  /\ UNCHANGED <<phase, images, showTextModal, isLoading, progress, result, error,
                 useLowQuality, history, isPremium, scanCount, userId, progressInterval,
                 timers, storedHistory, cachedPremium, dbRow, tasks, boot, netCalls,
                 captures, reads, cam, dsc, util, secure, run>>

\* Camera's onClose
CloseCamera ==
  /\ Running /\ isCameraOpen
  /\ isCameraOpen' = FALSE
  /\ last' = Op("-")
  /\ UNCHANGED <<phase, images, showTextModal, showSubscriptionModal, isLoading, progress,
                 result, error, useLowQuality, history, isPremium, scanCount, userId,
                 progressInterval, timers, storedHistory, cachedPremium, dbRow, tasks, boot,
                 netCalls, captures, reads, cam, dsc, util, secure, run>>

\* handleCapture(imageSrc): the camera delivers an image (a live capture or
\* one of the system camera); budget bounds the images of the behaviour
CaptureWithin(budget) ==
  /\ Running /\ isCameraOpen
  /\ captures < budget
  /\ captures' = captures + 1
  /\ IF Len(images) >= MAX_IMAGES_PER_SCAN
     THEN UNCHANGED <<images, isCameraOpen, result, error, useLowQuality, progress>>
     ELSE /\ images' = Append(images, captures + 1)
          /\ isCameraOpen' = (Len(images) + 1 < MAX_IMAGES_PER_SCAN)
          /\ result' = NoResult
          /\ error' = ""
          /\ useLowQuality' = FALSE
          /\ progress' = 0
  /\ last' = Op("-")
  /\ UNCHANGED <<phase, showTextModal, showSubscriptionModal, isLoading, history, isPremium,
                 scanCount, userId, progressInterval, timers, storedHistory, cachedPremium,
                 dbRow, tasks, boot, netCalls, reads, cam, dsc, util, secure, run>>

HandleCapture == CaptureWithin(MaxCaptures)

\* handleFileSelect, up to its first await: the file input is on the home
\* screen and is disabled while the gate denies.
SelectWithin(budget) ==
  /\ Running /\ NoOverlay
  /\ Len(images) = 0 /\ ~HasResult
  /\ ~GateDenied(isPremium, scanCount)
  /\ \E k \in 1..(MAX_IMAGES_PER_SCAN - Len(images)) :
       /\ captures + k <= budget
       /\ reads' = Append(reads, [i \in 1..k |-> captures + i])
       /\ captures' = captures + k
  /\ isLoading' = TRUE
  /\ error' = ""
  /\ result' = NoResult
  /\ last' = Op("-")
  /\ UNCHANGED <<phase, images, isCameraOpen, showTextModal, showSubscriptionModal, progress,
                 useLowQuality, history, isPremium, scanCount, userId, progressInterval,
                 timers, storedHistory, cachedPremium, dbRow, tasks, boot, netCalls, cam, dsc, util, secure, run>>

HandleFileSelect == SelectWithin(MaxCaptures)

\* handleFileSelect, once the files of a batch are read
FilesRead ==
  /\ \E i \in 1..Len(reads) :
       /\ images' = images \o reads[i]
       /\ reads' = RemoveAt(reads, i)
  /\ isLoading' = FALSE
  /\ progress' = 0
  /\ last' = Op("-")
  /\ UNCHANGED <<phase, isCameraOpen, showTextModal, showSubscriptionModal, result, error,
                 useLowQuality, history, isPremium, scanCount, userId, progressInterval,
                 timers, storedHistory, cachedPremium, dbRow, tasks, boot, netCalls,
                 captures, cam, dsc, util, secure, run>>

\* removeImage(index): the gallery is shown while no result is
RemoveImage ==
  /\ Running /\ NoOverlay
  /\ ~HasResult
  /\ \E i \in 1..Len(images) : images' = RemoveAt(images, i)
  /\ result' = NoResult
  /\ last' = Op("-")
  /\ UNCHANGED <<phase, isCameraOpen, showTextModal, showSubscriptionModal, isLoading,
                 progress, error, useLowQuality, history, isPremium, scanCount, userId,
                 progressInterval, timers, storedHistory, cachedPremium, dbRow, tasks, boot,
                 netCalls, captures, reads, cam, dsc, util, secure, run>>

\* resetApp is offered as "delete all" in the gallery, as "cancel" in the
\* error box and as "scan again" beside a result.
ResetOffered ==
  \/ ~HasResult /\ Len(images) > 0 /\ Len(images) < MAX_IMAGES_PER_SCAN
  \/ ~isLoading /\ error # "" /\ (Len(images) > 0 \/ HasResult)
  \/ HasResult

ResetApp ==
  /\ Running /\ NoOverlay
  /\ ResetOffered
  /\ images' = <<>>
  /\ result' = NoResult
  /\ error' = ""
  /\ isCameraOpen' = FALSE
  /\ progress' = 0
  /\ timers' = ClearCurrent(timers, progressInterval)
  /\ last' = Op("ResetApp")
  /\ UNCHANGED <<phase, showTextModal, showSubscriptionModal, isLoading, useLowQuality,
                 history, isPremium, scanCount, userId, progressInterval, storedHistory,
                 cachedPremium, dbRow, tasks, boot, netCalls, captures,
                 reads, cam, dsc, util, secure, run>>

\* the "manual input" button of the home screen
OpenTextModal ==
  /\ Running /\ NoOverlay
  /\ Len(images) = 0 /\ ~HasResult
  /\ showTextModal' = TRUE
  /\ last' = Op("-")
  /\ UNCHANGED <<phase, images, isCameraOpen, showSubscriptionModal, isLoading, progress,
                 result, error, useLowQuality, history, isPremium, scanCount, userId,
                 progressInterval, timers, storedHistory, cachedPremium, dbRow, tasks, boot,
                 netCalls, captures, reads, cam, dsc, util, secure, run>>

CloseTextModal ==
  /\ Running /\ showTextModal
  /\ showTextModal' = FALSE
  /\ last' = Op("-")
  /\ UNCHANGED <<phase, images, isCameraOpen, showSubscriptionModal, isLoading, progress,
                 result, error, useLowQuality, history, isPremium, scanCount, userId,
                 progressInterval, timers, storedHistory, cachedPremium, dbRow, tasks, boot,
                 netCalls, captures, reads, cam, dsc, util, secure, run>>

CloseSubscriptionModal ==
  /\ Running /\ showSubscriptionModal
  /\ showSubscriptionModal' = FALSE
  /\ last' = Op("-")
  /\ UNCHANGED <<phase, images, isCameraOpen, showTextModal, isLoading, progress,
                 result, error, useLowQuality, history, isPremium, scanCount, userId,
                 progressInterval, timers, storedHistory, cachedPremium, dbRow, tasks, boot,
                 netCalls, captures, reads, cam, dsc, util, secure, run>>

\* loadHistoryItem(item): an entry of the history modal is selected
LoadHistoryItem ==
  /\ Running /\ NoOverlay
  /\ \E i \in 1..Len(history) :
       /\ result' = history[i].result
       /\ images' = IF history[i].thumbnail # 0 THEN <<history[i].thumbnail>> ELSE <<>>
  /\ error' = ""
  /\ last' = Op("-")
  /\ UNCHANGED <<phase, isCameraOpen, showTextModal, showSubscriptionModal, isLoading,
                 progress, useLowQuality, history, isPremium, scanCount, userId,
                 progressInterval, timers, storedHistory, cachedPremium, dbRow, tasks, boot,
                 netCalls, captures, reads, cam, dsc, util, secure, run>>

(* ------------------------------------------------------------------ *)
(* App: handleAnalyze and handleAnalyzeText                             *)
(* ------------------------------------------------------------------ *)
\* The analyze button is shown when not loading, with images, and no error
\* and no result; the retry button when not loading, with images and an error.
AnalyzeOffered ==
  /\ ~isLoading /\ Len(images) > 0
  /\ (error # "" \/ ~HasResult)

\* handleAnalyze up to its first await (compressImage of every image)
HandleAnalyze ==
  /\ Running /\ NoOverlay
  /\ AnalyzeOffered
  /\ IF GateDenied(isPremium, scanCount)
     THEN /\ showSubscriptionModal' = TRUE
          /\ UNCHANGED <<isLoading, error, progress, tasks>>
     ELSE /\ CanStart
          /\ isLoading' = TRUE
          /\ error' = ""
          /\ progress' = 5
          /\ tasks' = [tasks EXCEPT ![NextScan] =
                         [IdleTask EXCEPT !.pc = "compress", !.kind = "image", !.uid = userId,
                                          !.hist = history, !.imgs = images]]
          /\ UNCHANGED showSubscriptionModal
  /\ last' = Op("HandleAnalyze")
  /\ UNCHANGED <<phase, images, isCameraOpen, showTextModal, result, useLowQuality, history,
                 isPremium, scanCount, userId, progressInterval, timers, storedHistory,
                 cachedPremium, dbRow, boot, netCalls, captures, reads, cam, dsc, util, secure, run>>

\* handleAnalyze after the compression: progress 30, 40, the timer is set and
\* analyzeImage is called, which downscales every image and issues the one
\* fetch of /api/analyze carrying all of them.
AfterCompress(t) ==
  /\ tasks[t].pc = "compress"
  /\ progress' = 40
  /\ timers' = ClearCurrent(timers, progressInterval) \cup {[id |-> t, kind |-> "image", n |-> 0]}
  /\ progressInterval' = t
  /\ netCalls' = netCalls + 1
  /\ tasks' = [tasks EXCEPT ![t].pc = "fetch",
                            ![t].sent = ImageRequest(tasks[t].imgs, tasks[t].uid)]
  /\ last' = Op("-")
  /\ UNCHANGED <<phase, images, isCameraOpen, showTextModal, showSubscriptionModal, isLoading,
                 result, error, useLowQuality, history, isPremium, scanCount, userId,
                 storedHistory, cachedPremium, dbRow, boot, captures, reads, cam, dsc, util, secure, run>>

\* handleAnalyzeText up to its first await (the fetch of analyzeText)
HandleAnalyzeText ==
  /\ Running /\ showTextModal
  /\ showTextModal' = FALSE
  /\ IF GateDenied(isPremium, scanCount)
     THEN /\ showSubscriptionModal' = TRUE
          /\ UNCHANGED <<isLoading, error, result, images, progress, timers,
                         progressInterval, netCalls, tasks>>
     ELSE /\ CanStart
          /\ isLoading' = TRUE
          /\ error' = ""
          /\ result' = NoResult
          /\ images' = <<>>
          /\ progress' = 20
          /\ timers' = ClearCurrent(timers, progressInterval) \cup {[id |-> NextScan, kind |-> "text", n |-> 0]}
          /\ progressInterval' = NextScan
          /\ netCalls' = netCalls + 1
          /\ tasks' = [tasks EXCEPT ![NextScan] =
                         [IdleTask EXCEPT !.pc = "fetch", !.kind = "text", !.uid = userId,
                                          !.hist = history, !.sent = TextRequest(userId)]]
          /\ UNCHANGED showSubscriptionModal
  /\ last' = Op("HandleAnalyzeText")
  /\ UNCHANGED <<phase, isCameraOpen, useLowQuality, history, isPremium, scanCount, userId,
                 storedHistory, cachedPremium, dbRow, boot, captures,
                 reads, cam, dsc, util, secure, run>>

\* One tick of an interval timer. Image: prev >= 90 ? (clear the current
\* timer, 90) : prev + 2. Text: prev >= 90 ? 90 : prev + 5.
Tick ==
  /\ \E tm \in timers :
       /\ tm.n < MaxTicks
       /\ LET ticked == (timers \ {tm}) \cup {[tm EXCEPT !.n = tm.n + 1]}
          IN  IF tm.kind = "image"
              THEN /\ progress' = IF progress >= 90 THEN 90 ELSE progress + 2
                   /\ timers' = IF progress >= 90 THEN ClearCurrent(ticked, progressInterval) ELSE ticked
              ELSE /\ progress' = IF progress >= 90 THEN 90 ELSE progress + 5
                   /\ timers' = ticked
  /\ last' = Op("-")
  /\ UNCHANGED <<phase, images, isCameraOpen, showTextModal, showSubscriptionModal, isLoading,
                 result, error, useLowQuality, history, isPremium, scanCount, userId,
                 progressInterval, storedHistory, cachedPremium, dbRow, tasks, boot, netCalls,
                 captures, reads, cam, dsc, util, secure, run>>

(* ------------------------------------------------------------------ *)
(* The /api/analyze endpoint and the user_stats record                  *)
(* ------------------------------------------------------------------ *)
Identified_Never(t) == FALSE
Identified(t) == tasks[t].uid # ""

\* increment_scan_count(row_id): insert ... on conflict do update set
\* scan_count = scan_count + 1
IncrementScanCount(row) ==
  IF row.exists THEN [row EXCEPT !.scan_count = row.scan_count + 1] ELSE Row(1, FALSE)

\* The fallback when the RPC fails: update scan_count to the value read plus
\* one, or insert {scan_count: 1} when no row was read.
FallbackWrite(row, snap) ==
  IF snap.exists
  THEN (IF row.exists THEN [row EXCEPT !.scan_count = snap.scan_count + 1] ELSE row)
  ELSE (IF row.exists THEN row ELSE Row(1, FALSE))

\* what the model call and JSON.parse give: a classification, a
\* classification with confidence 0, or the fallback for an unparsable reply
ModelResult(t, out) ==
  IF out = "ok" THEN MkResult(t, 85, "ok", <<Detail("gelatin", DOUBTFUL)>>)
  ELSE IF out = "zero" THEN MkResult(t, 0, "model0", <<>>)
  ELSE MkResult(t, 0, "parse", <<>>)

\* the request does not reach the handler: fetch rejects
NetworkFail(t) ==
  /\ tasks[t].pc = "fetch"
  /\ tasks' = [tasks EXCEPT ![t].pc = "resp", ![t].status = 0]
  /\ last' = Op("-")
  /\ UNCHANGED <<phase, images, isCameraOpen, showTextModal, showSubscriptionModal, isLoading,
                 progress, result, error, useLowQuality, history, isPremium, scanCount, userId,
                 progressInterval, timers, storedHistory, cachedPremium, dbRow, boot, netCalls,
                 captures, reads, cam, dsc, util, secure, run>>

\* the platform refuses the body: 413
PayloadTooLarge(t) ==
  /\ tasks[t].pc = "fetch"
  /\ tasks[t].kind = "image"
  /\ tasks' = [tasks EXCEPT ![t].pc = "resp", ![t].status = 413]
  /\ last' = Op("-")
  /\ UNCHANGED <<phase, images, isCameraOpen, showTextModal, showSubscriptionModal, isLoading,
                 progress, result, error, useLowQuality, history, isPremium, scanCount, userId,
                 progressInterval, timers, storedHistory, cachedPremium, dbRow, boot, netCalls,
                 captures, reads, cam, dsc, util, secure, run>>

\* The record after the handler's "Increment Scan Count" block, run without
\* another request in between: the RPC; when it fails the fallback; when that
\* throws too, nothing (the catch swallows it).
AfterIncrement(row, rpcOk, fallbackOk) ==
  IF rpcOk THEN IncrementScanCount(row)
  ELSE IF fallbackOk THEN FallbackWrite(row, row)
  ELSE row

\* One run of the handler for the request of attempt t: the limit check
\* (403), the model call (500 when it throws, 504 when the platform times the
\* function out), the parse, the increment for an identified user, the 200.
Serve(t) ==
  /\ tasks[t].pc = "fetch"
  /\ \E dbError \in BOOLEAN, out \in {"ok", "zero", "unparsable", "throw", "timeout"},
        rpcOk \in BOOLEAN, fallbackOk \in BOOLEAN :
       LET row == IF dbError THEN NoRow ELSE dbRow
       IN  IF Identified(t) /\ ServerDenied(row.is_premium, row.scan_count, dbError \/ ~dbRow.exists)
           THEN /\ tasks' = [tasks EXCEPT ![t].pc = "resp", ![t].status = 403]
                /\ UNCHANGED dbRow
           ELSE IF out = "throw"
           THEN /\ tasks' = [tasks EXCEPT ![t].pc = "resp", ![t].status = 500]
                /\ UNCHANGED dbRow
           ELSE IF out = "timeout"
           THEN /\ tasks' = [tasks EXCEPT ![t].pc = "resp", ![t].status = 504]
                /\ UNCHANGED dbRow
           ELSE /\ tasks' = [tasks EXCEPT ![t].pc = "resp", ![t].status = 200,
                                          ![t].res = ModelResult(t, out)]
                /\ dbRow' = IF Identified(t) THEN AfterIncrement(dbRow, rpcOk, fallbackOk) ELSE dbRow
  /\ last' = Op("-")
  /\ UNCHANGED <<phase, images, isCameraOpen, showTextModal, showSubscriptionModal, isLoading,
                 progress, result, error, useLowQuality, history, isPremium, scanCount, userId,
                 progressInterval, timers, storedHistory, cachedPremium, boot, netCalls,
                 captures, reads, cam, dsc, util, secure, run>>

(* ------------------------------------------------------------------ *)
(* The endpoint's handler, await by await                               *)
(* ------------------------------------------------------------------ *)
\* everything but the requests and the user_stats record
exceptServer == <<phase, images, isCameraOpen, showTextModal, showSubscriptionModal, isLoading,
                  progress, result, error, useLowQuality, history, isPremium, scanCount, userId,
                  progressInterval, timers, storedHistory, cachedPremium, boot, netCalls,
                  captures, last, reads, cam, dsc, util, secure, run>>

ServerPcs == {"srvCheck", "srvModel", "srvRpc", "srvRead", "srvWrite"}
InService == {t \in Scans : tasks[t].pc \in ServerPcs}
\* the requests answered 200 and not yet delivered
Answered == {t \in Scans : tasks[t].pc = "resp" /\ tasks[t].status = 200}

\* a request with the header x-user-id of the identity reaches the handler
Arrive(t) ==
  /\ tasks[t].pc = "idle"
  /\ t = NextScan
  /\ tasks' = [tasks EXCEPT ![t] = [IdleTask EXCEPT !.pc = "srvCheck", !.kind = "text",
                                                    !.uid = "u1", !.sent = TextRequest("u1")]]
  /\ UNCHANGED <<dbRow, exceptServer>>

\* the select of the rate limiting resolves: 403 or on to the model call
SrvCheck(t) ==
  /\ tasks[t].pc = "srvCheck"
  /\ \E dbError \in BOOLEAN :
       LET row == IF dbError THEN NoRow ELSE dbRow
       IN  tasks' = IF ServerDenied(row.is_premium, row.scan_count, dbError \/ ~dbRow.exists)
                    THEN [tasks EXCEPT ![t].pc = "resp", ![t].status = 403]
                    ELSE [tasks EXCEPT ![t].pc = "srvModel"]
  /\ UNCHANGED <<dbRow, exceptServer>>

\* generateContent settles and the reply is parsed
SrvModel(t) ==
  /\ tasks[t].pc = "srvModel"
  /\ \E out \in {"ok", "zero", "unparsable", "throw", "timeout"} :
       tasks' = IF out = "throw" THEN [tasks EXCEPT ![t].pc = "resp", ![t].status = 500]
                ELSE IF out = "timeout" THEN [tasks EXCEPT ![t].pc = "resp", ![t].status = 504]
                ELSE [tasks EXCEPT ![t].pc = "srvRpc", ![t].res = ModelResult(t, out)]
  /\ UNCHANGED <<dbRow, exceptServer>>

\* rpc('increment_scan_count') settles: done, or on to the fallback
SrvRpc(t) ==
  /\ tasks[t].pc = "srvRpc"
  /\ \E rpcOk \in BOOLEAN :
       IF rpcOk
       THEN /\ dbRow' = IncrementScanCount(dbRow)
            /\ tasks' = [tasks EXCEPT ![t].pc = "resp", ![t].status = 200]
       ELSE /\ tasks' = [tasks EXCEPT ![t].pc = "srvRead"]
            /\ UNCHANGED dbRow
  /\ UNCHANGED exceptServer

\* the fallback's select of scan_count resolves: currentStats
SrvRead(t) ==
  /\ tasks[t].pc = "srvRead"
  /\ \E failed \in BOOLEAN :
       tasks' = [tasks EXCEPT ![t].pc = "srvWrite", ![t].snap = ReadStats(dbRow, failed).snap]
  /\ UNCHANGED <<dbRow, exceptServer>>

\* the fallback's update (or insert) settles, and the 200 is sent
SrvWrite(t) ==
  /\ tasks[t].pc = "srvWrite"
  /\ \E ok \in BOOLEAN :
       dbRow' = IF ok THEN FallbackWrite(dbRow, tasks[t].snap) ELSE dbRow
  /\ tasks' = [tasks EXCEPT ![t].pc = "resp", ![t].status = 200, ![t].snap = NoRow]
  /\ UNCHANGED exceptServer

\* Requests of one identity handled concurrently, for a user one scan below
\* the limit, free or premium.
NextServer ==
  \/ \E t \in Scans : Arrive(t)
  \/ \E t \in Scans : SrvCheck(t)
  \/ \E t \in Scans : SrvModel(t)
  \/ \E t \in Scans : SrvRpc(t)
  \/ \E t \in Scans : SrvRead(t)
  \/ \E t \in Scans : SrvWrite(t)

InitServer ==
  /\ InitApp
  /\ dsc = NoCall
  /\ util = NoUtil
  /\ secure = SecureIntact
  /\ run = FirstRun
  /\ storedHistory = Absent
  /\ dbRow \in {Row(SERVER_FREE_LIMIT - 1, p) : p \in BOOLEAN}
  /\ cachedPremium = FALSE
  /\ cam = CamInit

SpecServer == InitServer /\ [][NextServer]_vars

(* ------------------------------------------------------------------ *)
(* The service (analyzeImage / analyzeText) and the handlers' rest      *)
(* ------------------------------------------------------------------ *)
\* The service throws LIMIT_REACHED for a 403 and gives a result for
\* everything else: the endpoint's for a 200, a synthesized failure
\* (confidence 0) for another status or a rejected fetch (status 0).
ServiceThrows(status) == status = 403
ServiceResult(t, status, res) ==
  IF status = 200 THEN res ELSE MkResult(t, 0, "server", <<>>)

\* the reason the service gives for an error whose message names neither
\* "Server Error" nor "Failed to fetch"
UnexpectedMessage == "unexpected"

\* scanResult.reason.includes('image size') || includes('حجم الصورة'):
\* none of the reasons the service or the endpoint gives mentions it
MentionsImageSize(reason) == reason \in {}

\* saveToHistory as a step of task t
SaveStep(t, scanResult, thumbnail, op) ==
  \E w1ok \in BOOLEAN, w2ok \in BOOLEAN :
    LET s == SaveToHistory(tasks[t].hist, storedHistory, scanResult, thumbnail, w1ok, w2ok)
    IN  /\ history' = s.history
        /\ storedHistory' = s.stored
        /\ last' = [op |-> op, writes |-> s.writes, threw |-> s.threw]

\* handleAnalyze from the response on: the catch for a thrown LIMIT_REACHED,
\* the reported failure, or the success up to the next await
ImageResponse(t) ==
  /\ tasks[t].pc = "resp"
  /\ tasks[t].kind = "image"
  /\ timers' = ClearCurrent(timers, progressInterval)
  /\ LET r == ServiceResult(t, tasks[t].status, tasks[t].res)
     IN  IF ServiceThrows(tasks[t].status)
         THEN /\ showSubscriptionModal' = TRUE
              /\ error' = "limit"
              /\ isLoading' = FALSE
              /\ tasks' = [tasks EXCEPT ![t] = DoneTask]
              /\ UNCHANGED <<progress, result, useLowQuality, scanCount>>
         ELSE IF IsFailure(r)
         THEN /\ progress' = 100
              /\ useLowQuality' = (useLowQuality \/ MentionsImageSize(r.reason))
              /\ error' = r.reason
              /\ isLoading' = FALSE
              /\ tasks' = [tasks EXCEPT ![t] = DoneTask]
              /\ UNCHANGED <<showSubscriptionModal, result, scanCount>>
         ELSE /\ progress' = 100
              /\ result' = r
              /\ IF Identified(t)
                 THEN /\ tasks' = [tasks EXCEPT ![t].pc = "refreshReq", ![t].res = r]
                      /\ UNCHANGED <<scanCount, isLoading>>
                 ELSE /\ scanCount' = scanCount + 1
                      /\ isLoading' = FALSE
                      /\ tasks' = [tasks EXCEPT ![t].pc = "thumb", ![t].res = r]
              /\ UNCHANGED <<showSubscriptionModal, error, useLowQuality>>
  /\ last' = Op("-")
  /\ UNCHANGED <<phase, images, isCameraOpen, showTextModal, history, isPremium, userId,
                 progressInterval, storedHistory, cachedPremium, dbRow, boot, netCalls,
                 captures, reads, cam, dsc, util, secure, run>>

\* handleAnalyzeText from the response on
TextResponse(t) ==
  /\ tasks[t].pc = "resp"
  /\ tasks[t].kind = "text"
  /\ timers' = ClearCurrent(timers, progressInterval)
  /\ LET r == ServiceResult(t, tasks[t].status, tasks[t].res)
     IN  IF ServiceThrows(tasks[t].status)
         THEN /\ showSubscriptionModal' = TRUE
              /\ error' = "limit"
              /\ isLoading' = FALSE
              /\ tasks' = [tasks EXCEPT ![t] = DoneTask]
              /\ last' = Op("-")
              /\ UNCHANGED <<progress, result, scanCount, history, storedHistory>>
         ELSE IF IsFailure(r)
         THEN /\ progress' = 100
              /\ error' = r.reason
              /\ isLoading' = FALSE
              /\ tasks' = [tasks EXCEPT ![t] = DoneTask]
              /\ last' = Op("-")
              /\ UNCHANGED <<showSubscriptionModal, result, scanCount, history, storedHistory>>
         ELSE /\ progress' = 100
              /\ result' = r
              /\ IF Identified(t)
                 THEN /\ tasks' = [tasks EXCEPT ![t].pc = "refreshReq", ![t].res = r]
                      /\ last' = Op("-")
                      /\ UNCHANGED <<scanCount, isLoading, history, storedHistory>>
                 ELSE /\ scanCount' = scanCount + 1
                      /\ SaveStep(t, r, 0, "TextResponse")
                      /\ isLoading' = FALSE
                      /\ tasks' = [tasks EXCEPT ![t] = DoneTask]
              /\ UNCHANGED <<showSubscriptionModal, error>>
  /\ UNCHANGED <<phase, images, isCameraOpen, showTextModal, useLowQuality, isPremium, userId,
                 progressInterval, cachedPremium, dbRow, boot, netCalls, captures,
                 reads, cam, dsc, util, secure, run>>

\* fetchUserStats of a successful attempt: the select reads the record
RefreshRead(t) ==
  /\ tasks[t].pc = "refreshReq"
  /\ \E failed \in BOOLEAN :
       tasks' = [tasks EXCEPT ![t].pc = "refreshResp",
                              ![t].snap = ReadStats(dbRow, failed).snap,
                              ![t].snapKind = ReadStats(dbRow, failed).snapKind]
  /\ last' = Op("-")
  /\ UNCHANGED <<phase, images, isCameraOpen, showTextModal, showSubscriptionModal, isLoading,
                 progress, result, error, useLowQuality, history, isPremium, scanCount, userId,
                 progressInterval, timers, storedHistory, cachedPremium, dbRow, boot, netCalls,
                 captures, reads, cam, dsc, util, secure, run>>

\* fetchUserStats resolves and the handler goes on: the image path starts the
\* thumbnail, the text path saves; both end in the finally block
RefreshApply(t) ==
  /\ tasks[t].pc = "refreshResp"
  /\ scanCount' = StatsCount(tasks[t].snapKind, tasks[t].snap, scanCount)
  /\ isPremium' = StatsPremium(tasks[t].snapKind, tasks[t].snap, isPremium)
  /\ cachedPremium' = StatsPremium(tasks[t].snapKind, tasks[t].snap, cachedPremium)
  /\ secure' = IF tasks[t].snapKind = "data" THEN SetPremiumEntry(secure) ELSE secure
  /\ isLoading' = FALSE
  /\ IF tasks[t].kind = "image"
     THEN /\ tasks' = [tasks EXCEPT ![t].pc = "thumb", ![t].snap = NoRow, ![t].snapKind = ""]
          /\ last' = Op("-")
          /\ UNCHANGED <<history, storedHistory>>
     ELSE /\ SaveStep(t, tasks[t].res, 0, "RefreshApply")
          /\ tasks' = [tasks EXCEPT ![t] = DoneTask]
  /\ UNCHANGED <<phase, images, isCameraOpen, showTextModal, showSubscriptionModal,
                 progress, result, error, useLowQuality, userId, progressInterval, timers,
                 dbRow, boot, netCalls, captures, reads, cam, dsc, util, run>>

\* the thumbnail of the first image is ready: saveToHistory(scanResult, thumb)
ThumbDone(t) ==
  /\ tasks[t].pc = "thumb"
  /\ SaveStep(t, tasks[t].res, tasks[t].imgs[1], "ThumbDone")
  /\ tasks' = [tasks EXCEPT ![t] = DoneTask]
  /\ UNCHANGED <<phase, images, isCameraOpen, showTextModal, showSubscriptionModal, isLoading,
                 progress, result, error, useLowQuality, isPremium, scanCount, userId,
                 progressInterval, timers, cachedPremium, dbRow, boot, netCalls, captures,
                 reads, cam, dsc, util, secure, run>>

(* ------------------------------------------------------------------ *)
(* The camera session (useCamera)                                       *)
(* ------------------------------------------------------------------ *)
\* mountedRef.current, as startCamera reads it after an await
StillMounted_Always(c) == TRUE
StillMounted(c) == c.mounted

\* startCamera from the check of navigator.mediaDevices on: an error, or the
\* first getUserMedia request
RequestFirst_NoCheck(c) == [c EXCEPT !.pc = "first", !.asked = <<"environment">>]
RequestFirst(c) ==
  IF c.mediaDevices
  THEN [c EXCEPT !.pc = "first", !.asked = <<"environment">>]
  ELSE [c EXCEPT !.pc = "done", !.error = IF c.native THEN "useNative" ELSE "unsupported"]

\* The mount effect: mountedRef.current = true, startCamera() up to its first
\* await.
CamMount ==
  /\ cam.pc = "new"
  /\ cam' = IF cam.native
            THEN [cam EXCEPT !.pc = "perm", !.mounted = TRUE, !.error = ""]
            ELSE RequestFirst([cam EXCEPT !.mounted = TRUE, !.error = ""])
  /\ UNCHANGED appVars

\* Camera.requestPermissions() resolves (granted, denied) or rejects
CamPermission ==
  /\ cam.pc = "perm"
  /\ \E out \in {"granted", "denied", "throws"} :
       cam' = IF out = "denied"
              THEN [cam EXCEPT !.pc = "done", !.error = "permission"]
              ELSE RequestFirst(cam)
  /\ UNCHANGED appVars

\* The capabilities a track reports: torch, and zoom as [min, max] (max 0: no
\* zoom capability).
ZoomCaps == {[min |-> 0, max |-> 0]} \cup
            {[min |-> lo, max |-> hi] : lo \in 1..MaxZoom, hi \in 1..MaxZoom}

\* if (capabilities.torch) setHasTorch(true); if (capabilities.zoom)
\* { setHasZoom(true); setMaxZoom(zoom.max || 1); setZoomLevel(zoom.min || 1) }
Probe(c, torch, zoom) ==
  [c EXCEPT !.hasTorch = c.hasTorch \/ torch,
            !.hasZoom = c.hasZoom \/ (zoom.max > 0),
            !.maxZoom = IF zoom.max > 0 THEN zoom.max ELSE c.maxZoom,
            !.zoomLevel = IF zoom.max > 0 THEN zoom.min ELSE c.zoomLevel]

\* The catch of the first getUserMedia: return if the owner is gone, else
\* request the fallback stream with {video: true}
FirstFailed_GiveUp(c) == [c EXCEPT !.pc = "done", !.error = "other"]
FirstFailed(c) ==
  IF ~StillMounted(c)
  THEN [c EXCEPT !.pc = "done"]
  ELSE [c EXCEPT !.pc = "fallback", !.asked = Append(c.asked, "generic")]

\* The first getUserMedia settles. Resolved: the stream is stopped if the
\* owner is gone, else stored, attached to the video and probed. Rejected:
\* the catch.
CamFirstSettles ==
  /\ cam.pc = "first"
  /\ \E ok \in BOOLEAN, torch \in BOOLEAN, zoom \in {z \in ZoomCaps : z.min <= z.max} :
       cam' = IF ok
              THEN IF ~StillMounted(cam)
                   THEN [cam EXCEPT !.pc = "done", !.stoppedLate = cam.stoppedLate \cup {1}]
                   ELSE Probe([cam EXCEPT !.pc = "done", !.live = cam.live \cup {1},
                                          !.streamRef = 1, !.video = 1,
                                          !.caps = [torch |-> torch, zoomMax |-> zoom.max]],
                              torch, zoom)
              ELSE FirstFailed([cam EXCEPT !.failed = cam.failed + 1])
  /\ UNCHANGED appVars

\* what the track of a fallback stream offers: a torch or none, no zoom or
\* the largest
FallbackCaps == {[torch |-> t, zoomMax |-> z] : t \in BOOLEAN, z \in {0, MaxZoom}}

\* The fallback getUserMedia({video: true}) settles. Resolved: the stream is
\* stopped if the owner is gone, else stored and attached to the video.
\* Rejected: the error of the name.
CamFallbackSettles ==
  /\ cam.pc = "fallback"
  /\ \E out \in {"ok", "NotAllowedError", "NotFoundError", "other"}, caps \in FallbackCaps :
       cam' = IF out = "ok"
              THEN IF ~StillMounted(cam)
                   THEN [cam EXCEPT !.pc = "done", !.stoppedLate = cam.stoppedLate \cup {2}]
                   ELSE [cam EXCEPT !.pc = "done", !.live = cam.live \cup {2},
                                    !.streamRef = 2, !.video = 2, !.caps = caps]
              ELSE [cam EXCEPT !.pc = "done", !.error = out, !.failed = cam.failed + 1]
  /\ UNCHANGED appVars

\* stopStream(): the tracks of streamRef.current are stopped, the ref nulled
StopStream_KeepRef(c) == [c EXCEPT !.live = c.live \ {c.streamRef}]
StopStream(c) == [c EXCEPT !.live = c.live \ {c.streamRef}, !.streamRef = 0, !.caps = NoCaps]

\* cleanupCamera(): stopStream(), then the video's srcObject is nulled
CleanupCamera(c) == [StopStream(c) EXCEPT !.video = 0]

\* The effect's cleanup: mountedRef.current = false, cleanupCamera(); the
\* video element is gone with the component.
Unmounted(c) == [CleanupCamera(c) EXCEPT !.mounted = FALSE, !.ready = FALSE]

\* The owner unmounts the camera
CamUnmount ==
  /\ cam.pc # "new"
  /\ cam.mounted
  /\ cam' = Unmounted(cam)
  /\ UNCHANGED appVars

\* toggleTorch: applyConstraints resolves or rejects
CamToggleTorch ==
  /\ cam.mounted
  /\ cam.streamRef # 0 /\ cam.hasTorch
  /\ \E ok \in BOOLEAN :
       cam' = IF ok THEN [cam EXCEPT !.isTorchOn = ~cam.isTorchOn] ELSE cam
  /\ UNCHANGED appVars

\* setZoom(level): applyConstraints resolves or rejects
CamSetZoom ==
  /\ cam.mounted
  /\ cam.streamRef # 0 /\ cam.hasZoom
  /\ \E level \in 1..cam.maxZoom, ok \in BOOLEAN :
       cam' = IF ok THEN [cam EXCEPT !.zoomLevel = level] ELSE cam
  /\ UNCHANGED appVars

\* the video element has a frame of the attached stream
CamVideoReady ==
  /\ cam.mounted /\ cam.video # 0 /\ ~cam.ready
  /\ cam' = [cam EXCEPT !.ready = TRUE]
  /\ UNCHANGED appVars

\* videoRef.current && videoRef.current.readyState >= HAVE_CURRENT_DATA
VideoReady(c) == c.video # 0 /\ c.ready

\* captureImage(onCapture, shouldClose) of a render whose isCapturing is
\* `capturing`, up to its setTimeout: rejected when capturing, nothing when
\* the video has no frame, else the lock is taken and the shot is scheduled.
CaptureImage(c, capturing, shouldClose) ==
  LET called == [c EXCEPT !.nreq = c.nreq + 1,
                          !.reqs = IF c.reqs < 2 THEN c.reqs + 1 ELSE 2,
                          !.req = IF shouldClose THEN "close" ELSE "hold"]
  IN  IF capturing \/ ~VideoReady(c)
      THEN called
      ELSE [called EXCEPT !.isCapturing = TRUE, !.nshots = c.nshots + 1,
                          !.shots = c.shots \cup {[id |-> c.nshots + 1, close |-> shouldClose]}]

\* The shutter is rendered when there is no error, and disabled while
\* isCapturing; a disabled button is taken to receive no event.
ShutterEnabled(c) == c.pc # "new" /\ c.mounted /\ c.error = "" /\ ~c.isCapturing

\* handlePressStart (mousedown, touchstart)
CamPressStart ==
  /\ ShutterEnabled(cam)
  /\ cam.presses < MaxPresses
  /\ cam' = [cam EXCEPT !.isLongPressHandled = FALSE,
                         !.presses = cam.presses + 1,
                         !.pressTimer = cam.presses + 1,
                         !.pressTimers = cam.pressTimers \cup
                                           {[id |-> cam.presses + 1, cap |-> cam.isCapturing]},
                         !.down = TRUE, !.reqs = 0]
  /\ UNCHANGED appVars

\* A long-press timeout fires after LONG_PRESS_DURATION: the captureImage of
\* the render of the press start is called with shouldClose = false.
CamLongPress ==
  /\ cam.nreq < MaxRequests
  /\ \E tm \in cam.pressTimers :
       cam' = CaptureImage([cam EXCEPT !.pressTimers = cam.pressTimers \ {tm},
                                       !.isLongPressHandled = TRUE,
                                       !.showAddedToast = cam.showAddedToast \/ cam.mounted],
                           tm.cap, FALSE)
  /\ UNCHANGED appVars

\* handlePressEnd (mouseup and touchend, which end a press; mouseleave, which
\* the pointer causes with or without one)
CamPressEnd ==
  /\ ShutterEnabled(cam)
  /\ \E kind \in {"release", "leave"} :
       /\ kind = "release" => cam.down
       /\ LET c1 == [cam EXCEPT !.pressTimers = {tm \in cam.pressTimers : tm.id # cam.pressTimer},
                                !.pressTimer = 0, !.down = FALSE]
          IN  IF cam.isLongPressHandled
              THEN cam' = c1
              ELSE /\ cam.nreq < MaxRequests
                   /\ cam' = CaptureImage(c1, cam.isCapturing, TRUE)
  /\ UNCHANGED appVars

\* The 100 ms timeout of captureImage: the frame is drawn and delivered;
\* shouldClose leaves the lock taken (the short press's callback schedules
\* onClose), otherwise, or without a 2d context, the lock is released.
CamShotFires ==
  /\ \E sh \in cam.shots, ctxOk \in BOOLEAN :
       LET c1 == [cam EXCEPT !.shots = cam.shots \ {sh}]
           unlocked == [c1 EXCEPT !.isCapturing = IF cam.mounted THEN FALSE ELSE cam.isCapturing]
       IN  cam' = IF ~ctxOk THEN unlocked
                  ELSE IF sh.close
                  THEN [c1 EXCEPT !.delivered = cam.delivered + 1,
                                  !.closePending = TRUE, !.closeDone = TRUE]
                  ELSE [unlocked EXCEPT !.delivered = cam.delivered + 1]
  /\ UNCHANGED appVars

\* the 100 ms timeout of the short press: onClose()
CamCloseFires ==
  /\ cam.closePending
  /\ cam' = IF cam.mounted
            THEN [Unmounted(cam) EXCEPT !.closePending = FALSE]
            ELSE [cam EXCEPT !.closePending = FALSE]
  /\ UNCHANGED appVars

\* the 2000 ms timeout of the "image added" feedback
CamToastHide ==
  /\ cam.mounted /\ cam.showAddedToast
  /\ cam' = [cam EXCEPT !.showAddedToast = FALSE]
  /\ UNCHANGED appVars

\* openNativeCamera(onCapture) up to its await; the button is in the error box
CamOpenNative ==
  /\ cam.mounted /\ cam.error # ""
  /\ cam.natives < MaxNative
  /\ cam' = [cam EXCEPT !.natives = cam.natives + 1, !.nativePending = cam.nativePending + 1]
  /\ UNCHANGED appVars

\* Camera.getPhoto settles: a photo with a dataUrl, one without, or a
\* rejection (cancelled, failed) that the catch swallows
CamNativeSettles ==
  /\ cam.nativePending > 0
  /\ \E out \in {"photo", "empty", "throws"} :
       cam' = [cam EXCEPT !.nativePending = cam.nativePending - 1,
                          !.delivered = IF out = "photo" THEN cam.delivered + 1 ELSE cam.delivered]
  /\ UNCHANGED appVars

InitCam ==
  /\ InitApp
  /\ dsc = NoCall
  /\ util = NoUtil
  /\ secure = SecureIntact
  /\ run = FirstRun
  /\ storedHistory = Absent
  /\ dbRow = NoRow
  /\ cachedPremium = FALSE
  /\ cam \in {CamSession(n, m) : n \in BOOLEAN, m \in BOOLEAN}

NextCam ==
  \/ CamMount
  \/ CamPermission
  \/ CamFirstSettles
  \/ CamFallbackSettles
  \/ CamUnmount
  \/ CamToggleTorch
  \/ CamSetZoom
  \/ CamVideoReady
  \/ CamPressStart
  \/ CamLongPress
  \/ CamPressEnd
  \/ CamShotFires
  \/ CamCloseFires
  \/ CamToastHide
  \/ CamOpenNative
  \/ CamNativeSettles

SpecCam == InitCam /\ [][NextCam]_vars

(* ------------------------------------------------------------------ *)
(* downscaleImageIfNeeded (the service's client-side resize)            *)
(* ------------------------------------------------------------------ *)
\* width <= maxWidth && height <= maxHeight
Fits_Strict(img, maxWidth, maxHeight) == img.w < maxWidth /\ img.h < maxHeight
Fits(img, maxWidth, maxHeight) == img.w <= maxWidth /\ img.h <= maxHeight

\* Math.min(maxWidth / width, maxHeight / height), as the fraction n / d
Ratio(img, maxWidth, maxHeight) ==
  IF maxWidth * img.h <= maxHeight * img.w
  THEN [n |-> maxWidth, d |-> img.w]
  ELSE [n |-> maxHeight, d |-> img.h]

\* Math.round(x * ratio) for x >= 0: halves round up. Computed on the exact
\* fraction; the double product differs from it by less than any distance to
\* a half that the dimensions drawn here can produce.
RoundScaled(x, ratio) == (2 * x * ratio.n + ratio.d) \div (2 * ratio.d)

\* What downscaleImageIfNeeded(base64Str, maxWidth, maxHeight) resolves to.
\* loads: img.onload fires (else onerror); ctx: canvas.getContext('2d') is not
\* null.
DownscaleImageIfNeeded(img, maxWidth, maxHeight, loads, ctx) ==
  IF ~loads THEN img
  ELSE IF Fits(img, maxWidth, maxHeight) THEN img
  ELSE IF ~ctx THEN img
  ELSE LET ratio == Ratio(img, maxWidth, maxHeight)
       IN  Img(RoundScaled(img.w, ratio), RoundScaled(img.h, ratio), "canvas")

\* the promise of a call settles
DownscaleSettles ==
  /\ dsc.pc = "called"
  /\ \E loads \in BOOLEAN, ctx \in BOOLEAN :
       dsc' = [dsc EXCEPT !.pc = "settled", !.loads = loads, !.ctx = ctx,
                          !.out = DownscaleImageIfNeeded(dsc.img, dsc.maxWidth, dsc.maxHeight,
                                                         loads, ctx)]
  /\ UNCHANGED <<phase, images, isCameraOpen, showTextModal, showSubscriptionModal,
                 isLoading, progress, result, error, useLowQuality, history,
                 isPremium, scanCount, userId, progressInterval, timers,
                 storedHistory, cachedPremium, dbRow, tasks, boot, netCalls,
                 captures, last, reads, cam, util, secure, run>>

\* One call, on any image and any limits within the bounds
InitDownscale ==
  /\ InitApp
  /\ util = NoUtil
  /\ secure = SecureIntact
  /\ run = FirstRun
  /\ storedHistory = Absent
  /\ dbRow = NoRow
  /\ cachedPremium = FALSE
  /\ cam = CamInit
  /\ \E w \in 1..MaxDim, h \in 1..MaxDim, mw \in 1..MaxLimit, mh \in 1..MaxLimit :
       dsc = [NoCall EXCEPT !.pc = "called", !.img = Img(w, h, "src"),
                            !.maxWidth = mw, !.maxHeight = mh]

NextDownscale ==
  \/ DownscaleSettles

SpecDownscale == InitDownscale /\ [][NextDownscale]_vars

(* ------------------------------------------------------------------ *)
(* compressImage (the App's copies for the request and the history)     *)
(* ------------------------------------------------------------------ *)
\* everything but util
exceptUtil == <<phase, images, isCameraOpen, showTextModal, showSubscriptionModal,
                isLoading, progress, result, error, useLowQuality, history,
                isPremium, scanCount, userId, progressInterval, timers,
                storedHistory, cachedPremium, dbRow, tasks, boot, netCalls,
                captures, last, reads, cam, dsc, secure, run>>

\* Math.round(a / b) for a >= 0, b > 0: halves round up. Computed on the
\* exact fraction; the double quotient of integers this small is closer to
\* it than the fraction is to a half.
RoundDiv(a, b) == (2 * a + b) \div (2 * b)

\* What compressImage(base64Str, maxWidth, quality) resolves to. loads:
\* img.onload fires (else onerror); ctx: canvas.getContext('2d') is not null.
CompressImage(img, maxWidth, loads, ctx) ==
  IF ~loads THEN img
  ELSE LET resize == img.w > maxWidth
           width == IF resize THEN maxWidth ELSE img.w
           height == IF resize THEN RoundDiv(img.h * maxWidth, img.w) ELSE img.h
       IN  IF ctx THEN Img(width, height, "canvas") ELSE img

\* const width = useLowQuality ? 800 : 1024
TierWidth(low) == IF low THEN 800 ELSE 1024
\* compressImage(compressedImages[0], 200, 0.6)
ThumbWidth == 200

\* handleAnalyze's compressImage(img, width, quality) of an image settles:
\* the copy for the request
CompressSettles ==
  /\ util.pc = "tier"
  /\ \E loads \in BOOLEAN, ctx \in BOOLEAN :
       util' = [util EXCEPT !.pc = "thumb", !.copyDrawn = loads /\ ctx,
                            !.copy = CompressImage(util.src, TierWidth(util.low), loads, ctx)]
  /\ UNCHANGED exceptUtil

\* compressImage(compressedImages[0], 200, 0.6) settles: the thumbnail
ThumbSettles ==
  /\ util.pc = "thumb"
  /\ \E loads \in BOOLEAN, ctx \in BOOLEAN :
       util' = [util EXCEPT !.pc = "stored", !.thumbDrawn = loads /\ ctx,
                            !.thumb = CompressImage(util.copy, ThumbWidth, loads, ctx)]
  /\ UNCHANGED exceptUtil

\* The sides of the images drawn: the smallest, those about the three
\* widths compressImage is given, and the thousands.
Sides == {1, 2, 3} \cup {b + d : b \in {ThumbWidth, TierWidth(TRUE), TierWidth(FALSE)}, d \in {0 - 1, 0, 1}}
           \cup {1000 * k : k \in 2..MaxThousands}

\* One image of a scan, in either quality tier. copyDrawn, thumbDrawn: the
\* call drew the image on a canvas (it loaded and there was a 2d context).
InitCompress ==
  /\ InitApp
  /\ dsc = NoCall
  /\ secure = SecureIntact
  /\ run = FirstRun
  /\ storedHistory = Absent
  /\ dbRow = NoRow
  /\ cachedPremium = FALSE
  /\ cam = CamInit
  /\ \E w \in Sides, h \in Sides, low \in BOOLEAN :
       util = [pc |-> "tier", low |-> low, src |-> Img(w, h, "src"),
               copy |-> Img(0, 0, ""), copyDrawn |-> FALSE,
               thumb |-> Img(0, 0, ""), thumbDrawn |-> FALSE]

NextCompress ==
  \/ CompressSettles
  \/ ThumbSettles

SpecCompress == InitCompress /\ [][NextCompress]_vars

(* ------------------------------------------------------------------ *)
(* enhanceImage (contrast and sharpening before the request)            *)
(* ------------------------------------------------------------------ *)
\* One colour channel of the pixels of an image: rows of values 0..255.
Uniform(w, h, v) == [y \in 1..h |-> [x \in 1..w |-> v]]

\* (old - 128) * 1.25 + 128, in quarters (the product is exact in doubles)
ContrastQuarters(old) == 5 * (old - 128) + 512

\* The store of a number into a Uint8ClampedArray, the number given in
\* quarters: clamped to 0..255, rounded to the nearest integer, a half to the
\* even one.
ToUint8Clamp_Floor(q) == IF q <= 0 THEN 0 ELSE IF q >= 1020 THEN 255 ELSE q \div 4
ToUint8Clamp(q) ==
  IF q <= 0 THEN 0
  ELSE IF q >= 1020 THEN 255
  ELSE LET f == q \div 4
           r == q % 4
       IN  IF r < 2 THEN f
           ELSE IF r > 2 THEN f + 1
           ELSE IF f % 2 = 0 THEN f ELSE f + 1

\* 1. the contrast loop over data
Contrast(px) == [y \in DOMAIN px |-> [x \in DOMAIN px[y] |-> ToUint8Clamp(ContrastQuarters(px[y][x]))]]

\* 2. the convolution, read from the copy inputBuffer and stored into data,
\* for the pixels that are not on the border
Sharpen(px, w, h) ==
  [y \in 1..h |-> [x \in 1..w |->
     IF 1 < y /\ y < h /\ 1 < x /\ x < w
     THEN ToUint8Clamp(4 * (5 * px[y][x] - px[y][x - 1] - px[y][x + 1]
                               - px[y - 1][x] - px[y + 1][x]))
     ELSE px[y][x]]]

\* enhanceImage(base64Str) settles: the string given when the image does not
\* load or there is no 2d context, else the canvas of the image's size after
\* both steps. contrasted: data after the first step.
EnhanceSettles ==
  /\ util.pc = "enhance"
  /\ \E loads \in BOOLEAN, ctx \in BOOLEAN :
       LET contrasted == Contrast(util.px)
       IN  util' = IF loads /\ ctx
                   THEN [util EXCEPT !.pc = "enhanced", !.drawn = TRUE,
                                     !.contrasted = contrasted,
                                     !.out = Sharpen(contrasted, util.w, util.h),
                                     !.outW = util.w, !.outH = util.h]
                   ELSE [util EXCEPT !.pc = "enhanced", !.out = util.px,
                                     !.outW = util.w, !.outH = util.h]
  /\ UNCHANGED exceptUtil

\* One call on a uniform gray image
InitEnhance ==
  /\ InitApp
  /\ dsc = NoCall
  /\ secure = SecureIntact
  /\ run = FirstRun
  /\ storedHistory = Absent
  /\ dbRow = NoRow
  /\ cachedPremium = FALSE
  /\ cam = CamInit
  /\ \E w \in 1..MaxGrid, h \in 1..MaxGrid, v \in 0..255 :
       util = [pc |-> "enhance", w |-> w, h |-> h, v |-> v, px |-> Uniform(w, h, v),
               drawn |-> FALSE, contrasted |-> <<>>, out |-> <<>>, outW |-> 0, outH |-> 0]

NextEnhance ==
  \/ EnhanceSettles

SpecEnhance == InitEnhance /\ [][NextEnhance]_vars

(* ------------------------------------------------------------------ *)
(* enhanceImage on the RGBA data of the canvas                          *)
(* ------------------------------------------------------------------ *)
\* data[i] of the source, i counted from 0
At(d, i) == d[i + 1]

\* for (i = 0; i < data.length; i += 4) data[i], data[i+1], data[i+2] =
\* (old - 128) * contrast + 128: the fourth of every four is left
ContrastData(d) ==
  [k \in 1..Len(d) |-> IF (k - 1) % 4 < 3 THEN ToUint8Clamp(ContrastQuarters(d[k])) ELSE d[k]]

\* data[idx + c] for 1 <= y < h - 1, 1 <= x < w - 1, c < 3 is written by the
\* convolution; idx = (y * w + x) * 4
Convolved(k, w, h) ==
  LET i == k - 1
      x == (i \div 4) % w
      y == (i \div 4) \div w
  IN  i % 4 < 3 /\ 1 <= y /\ y < h - 1 /\ 1 <= x /\ x < w - 1
Kernel(buf, k, w) ==
  LET i == k - 1
  IN  At(buf, i) * 5 - At(buf, i - 4) - At(buf, i + 4) - At(buf, i - w * 4) - At(buf, i + w * 4)

\* the convolution reading data itself while it writes it
RECURSIVE SharpenFrom(_, _, _, _)
SharpenFrom(d, k, w, h) ==
  IF k > Len(d) THEN d
  ELSE SharpenFrom(IF Convolved(k, w, h)
                   THEN [d EXCEPT ![k] = ToUint8Clamp(4 * Kernel(d, k, w))]
                   ELSE d, k + 1, w, h)
SharpenData_InPlace(d, w, h) == SharpenFrom(d, 1, w, h)
\* inputBuffer = new Uint8ClampedArray(data); the loops read inputBuffer and
\* store into data
SharpenData(d, w, h) ==
  LET inputBuffer == d
  IN  [k \in 1..Len(d) |->
         IF Convolved(k, w, h) THEN ToUint8Clamp(4 * Kernel(inputBuffer, k, w)) ELSE d[k]]

\* enhanceImage settles for an image that loads into a canvas with a 2d
\* context: getImageData, the two steps, putImageData
EnhanceDataSettles ==
  /\ util.pc = "data"
  /\ LET contrasted == ContrastData(util.data)
     IN  util' = [util EXCEPT !.pc = "dataEnhanced",
                              !.contrasted = contrasted,
                              !.out = SharpenData(contrasted, util.w, util.h)]
  /\ UNCHANGED exceptUtil

\* the pixels (R, G, B, A) the images are made of
Pixels == {<<100, 120, 140, 255>>, <<140, 100, 121, 128>>}
RECURSIVE Flatten(_)
Flatten(px) == IF px = <<>> THEN <<>> ELSE Head(px) \o Flatten(Tail(px))

\* One call on an image of up to MaxDataW x MaxDataH pixels, each any of Pixels
InitEnhanceData ==
  /\ InitApp
  /\ dsc = NoCall
  /\ secure = SecureIntact
  /\ run = FirstRun
  /\ storedHistory = Absent
  /\ dbRow = NoRow
  /\ cachedPremium = FALSE
  /\ cam = CamInit
  /\ \E w \in 2..MaxDataW, h \in 2..MaxDataH :
       \E px \in [1..(w * h) -> Pixels] :
         util = [pc |-> "data", w |-> w, h |-> h, data |-> Flatten(px),
                 contrasted |-> <<>>, out |-> <<>>]

NextEnhanceData ==
  \/ EnhanceDataSettles

SpecEnhanceData == InitEnhanceData /\ [][NextEnhanceData]_vars

(* ------------------------------------------------------------------ *)
(* The start of the app over persisted state that something else wrote  *)
(* ------------------------------------------------------------------ *)
\* how an entry of secureStorage can be: none, as setItem writes it, not
\* base64, base64 of what is not URI-encoded, URI-encoding of what is not JSON
EntryStates == {Missing, Intact, Layers(TRUE, FALSE, TRUE, TRUE),
                Layers(TRUE, TRUE, FALSE, TRUE), Layers(TRUE, TRUE, TRUE, FALSE)}

\* the lists of up to MaxItems entries that are items, null or {}
PersistedLists ==
  UNION {[1..n -> {OldItem(1), NullItem, EmptyItem}] : n \in 0..MaxItems}

InitLoad ==
  /\ InitApp
  /\ dsc = NoCall
  /\ util = NoUtil
  /\ run = FirstRun
  /\ storedHistory \in {Absent, Unparsable, NotAList} \cup {Stored(l) : l \in PersistedLists}
  /\ dbRow = NoRow
  /\ cachedPremium \in BOOLEAN
  /\ secure \in [isPremium : EntryStates, scanCount : EntryStates, scanCountValue : {0, FREE_SCANS_LIMIT}]
  /\ cam = CamInit

NextLoad ==
  \/ Mount
  \/ BootAuth
  \/ BootStats
  \/ LoadHistoryItem

SpecLoad == InitLoad /\ [][NextLoad]_vars

(* ------------------------------------------------------------------ *)
(* Specification of the scan pipeline                                   *)
(* ------------------------------------------------------------------ *)
Next ==
  \/ Mount
  \/ BootAuth
  \/ BootStats
  \/ OpenCamera
  \/ CloseCamera
  \/ HandleCapture
  \/ HandleFileSelect
  \/ FilesRead
  \/ RemoveImage
  \/ ResetApp
  \/ OpenTextModal
  \/ CloseTextModal
  \/ CloseSubscriptionModal
  \/ LoadHistoryItem
  \/ HandleAnalyze
  \/ HandleAnalyzeText
  \/ Tick
  \/ \E t \in Scans : AfterCompress(t)
  \/ \E t \in Scans : NetworkFail(t)
  \/ \E t \in Scans : PayloadTooLarge(t)
  \/ \E t \in Scans : Serve(t)
  \/ \E t \in Scans : ImageResponse(t)
  \/ \E t \in Scans : TextResponse(t)
  \/ \E t \in Scans : RefreshRead(t)
  \/ \E t \in Scans : RefreshApply(t)
  \/ \E t \in Scans : ThumbDone(t)

Spec == Init /\ [][Next]_vars

\* The text pipeline alone (no camera, no files), over a history one item
\* below its capacity.
NextText ==
  \/ Mount
  \/ BootAuth
  \/ BootStats
  \/ OpenTextModal
  \/ CloseTextModal
  \/ CloseSubscriptionModal
  \/ HandleAnalyzeText
  \/ LoadHistoryItem
  \/ ResetApp
  \/ \E t \in Scans : Serve(t)
  \/ \E t \in Scans : TextResponse(t)
  \/ \E t \in Scans : RefreshRead(t)
  \/ \E t \in Scans : RefreshApply(t)

SpecHistory == InitHistory /\ [][NextText]_vars

\* The history load and the reading of its items, over the persisted histories.
NextMigrate ==
  \/ Mount
  \/ LoadHistoryItem
  \/ ResetApp

SpecMigrate == InitMigrate /\ [][NextMigrate]_vars

\* the pipeline for a user at the client's limit
SpecQuota == InitQuota /\ [][Next]_vars

\* The process ends (the app is closed or killed) and is started again: the
\* component state, the refs, the timers and the invocations are gone, what
\* localStorage and the user_stats record hold stays.
Restart ==
  /\ Running
  /\ run.n < MaxRuns
  /\ run' = [n |-> run.n + 1, count |-> scanCount, uid |-> userId, language |-> run.language]
  /\ phase' = "new"
  /\ images' = <<>>
  /\ isCameraOpen' = FALSE
  /\ showTextModal' = FALSE
  /\ showSubscriptionModal' = FALSE
  /\ isLoading' = FALSE
  /\ progress' = 0
  /\ result' = NoResult
  /\ error' = ""
  /\ useLowQuality' = FALSE
  /\ history' = <<>>
  /\ isPremium' = FALSE
  /\ scanCount' = 0
  /\ userId' = ""
  /\ progressInterval' = 0
  /\ timers' = {}
  /\ tasks' = [t \in Scans |-> IF tasks[t].pc = "idle" THEN IdleTask ELSE DoneTask]
  /\ boot' = [pc |-> "idle"]
  /\ reads' = <<>>
  /\ last' = Op("Restart")
  /\ UNCHANGED <<storedHistory, cachedPremium, dbRow, netCalls, captures, cam, dsc, util, secure>>

\* The text pipeline over up to MaxRuns runs of the app.
NextRestart ==
  \/ NextText
  \/ Restart

SpecRestart == Init /\ [][NextRestart]_vars

\* The pending image list alone, with up to MaxPicked images captured or
\* selected and none removed one by one, up to the requests that carry it.
PickCapture == CaptureWithin(MaxPicked)
PickFiles == SelectWithin(MaxPicked)

NextImages ==
  \/ Mount
  \/ OpenCamera
  \/ CloseCamera
  \/ PickCapture
  \/ PickFiles
  \/ FilesRead
  \/ ResetApp
  \/ HandleAnalyze
  \/ \E t \in Scans : AfterCompress(t)

InitImages ==
  /\ InitApp
  /\ dsc = NoCall
  /\ util = NoUtil
  /\ secure = SecureIntact
  /\ run = FirstRun
  /\ storedHistory = Absent
  /\ dbRow = NoRow
  /\ cachedPremium = FALSE
  /\ cam = CamInit

SpecImages == InitImages /\ [][NextImages]_vars

\* The image attempts alone, over up to MaxSent files selected, from the
\* selection to the end of the handler, in either language.
SendFiles == SelectWithin(MaxSent)

NextRequest ==
  \/ Mount
  \/ BootAuth
  \/ SendFiles
  \/ FilesRead
  \/ ResetApp
  \/ HandleAnalyze
  \/ \E t \in Scans : AfterCompress(t)
  \/ \E t \in Scans : NetworkFail(t)
  \/ \E t \in Scans : PayloadTooLarge(t)
  \/ \E t \in Scans : Serve(t)
  \/ \E t \in Scans : ImageResponse(t)
  \/ \E t \in Scans : RefreshRead(t)
  \/ \E t \in Scans : RefreshApply(t)
  \/ \E t \in Scans : ThumbDone(t)

InitRequest ==
  /\ InitApp
  /\ dsc = NoCall
  /\ util = NoUtil
  /\ secure = SecureIntact
  /\ run \in {[FirstRun EXCEPT !.language = l] : l \in Languages}
  /\ storedHistory = Absent
  /\ dbRow = NoRow
  /\ cachedPremium = FALSE
  /\ cam = CamInit

SpecRequest == InitRequest /\ [][NextRequest]_vars

\* The attempts of a user who waits for them (no reset, no removal), one
\* scan below the server's limit. Every await of a handler settles: the
\* compression, the file reads, the network call (answered or rejected),
\* the select of fetchUserStats and the thumbnail.
NextLive ==
  \/ Mount
  \/ BootAuth
  \/ BootStats
  \/ OpenTextModal
  \/ CloseTextModal
  \/ CloseSubscriptionModal
  \/ SendFiles
  \/ FilesRead
  \/ HandleAnalyze
  \/ HandleAnalyzeText
  \/ \E t \in Scans : AfterCompress(t)
  \/ \E t \in Scans : NetworkFail(t)
  \/ \E t \in Scans : PayloadTooLarge(t)
  \/ \E t \in Scans : Serve(t)
  \/ \E t \in Scans : ImageResponse(t)
  \/ \E t \in Scans : TextResponse(t)
  \/ \E t \in Scans : RefreshRead(t)
  \/ \E t \in Scans : RefreshApply(t)
  \/ \E t \in Scans : ThumbDone(t)

Settles ==
  \/ FilesRead
  \/ \E t \in Scans : AfterCompress(t)
  \/ \E t \in Scans : NetworkFail(t) \/ PayloadTooLarge(t) \/ Serve(t)
  \/ \E t \in Scans : ImageResponse(t) \/ TextResponse(t)
  \/ \E t \in Scans : RefreshRead(t)
  \/ \E t \in Scans : RefreshApply(t)
  \/ \E t \in Scans : ThumbDone(t)

\* The App component is unmounted: the cleanup of the mount effect clears the
\* current progress timer. No handler of the interface runs any more; the
\* invocations already started go on when their promises settle (their state
\* setters act on a component nobody renders).
AppUnmount ==
  /\ Running
  /\ phase' = "unmounted"
  /\ timers' = ClearCurrent(timers, progressInterval)
  /\ last' = Op("AppUnmount")
  /\ UNCHANGED <<images, isCameraOpen, showTextModal, showSubscriptionModal, isLoading,
                 progress, result, error, useLowQuality, history, isPremium, scanCount,
                 userId, progressInterval, storedHistory, cachedPremium, dbRow, tasks, boot,
                 netCalls, captures, reads, cam, dsc, util, secure, run>>

\* The whole pipeline of a user one scan below the server's limit, with the
\* unmount of the component.
NextTimers ==
  \/ Next
  \/ AppUnmount

InitTimers ==
  /\ InitApp
  /\ dsc = NoCall
  /\ util = NoUtil
  /\ secure = SecureIntact
  /\ run = FirstRun
  /\ storedHistory = Absent
  /\ dbRow = Row(SERVER_FREE_LIMIT - 1, FALSE)
  /\ cachedPremium = FALSE
  /\ cam = CamInit

SpecTimers == InitTimers /\ [][NextTimers]_vars

SpecLive == InitTimers /\ [][NextLive]_vars /\ WF_vars(Settles)

(* ------------------------------------------------------------------ *)
(* Properties of the scan pipeline                                      *)
(* ------------------------------------------------------------------ *)
ItemsOf(st) == st.items

\* C1: no item of the history, in memory or persisted, holds a result of
\* confidence 0.
C1_NoFailureInHistory ==
  /\ \A i \in 1..Len(history) : history[i].result.confidence # 0
  /\ \A i \in 1..Len(ItemsOf(storedHistory)) : ItemsOf(storedHistory)[i].result.confidence # 0

\* a parse failure of the endpoint was reported after a success was recorded
C1_Witness ==
  /\ error = "parse"
  /\ Len(history) = 1
  /\ storedHistory = Stored(history)
  /\ \A t \in Scans : tasks[t].pc = "done"

\* the result the handler of attempt t is given for a delivered response
Delivered(tk, t) == ServiceResult(t, tk.status, tk.res)

\* C2: an attempt whose result carries confidence 0 changes no quota counter:
\* the endpoint's handling of its request leaves the remote scan_count as it
\* was (a reply that cannot be parsed included), and the client's handling of
\* its result leaves scanCount as it was.
C2_FailureLeavesCounters ==
  [][\A t \in Scans :
       /\ (/\ tasks[t].pc = "fetch" /\ tasks'[t].pc = "resp"
           /\ ~ServiceThrows(tasks'[t].status)
           /\ Delivered(tasks'[t], t).confidence = 0) => dbRow' = dbRow
       /\ (/\ tasks[t].pc = "resp" /\ tasks'[t].pc = "done"
           /\ ~ServiceThrows(tasks[t].status)
           /\ Delivered(tasks[t], t).confidence = 0) => scanCount' = scanCount]_vars

\* C3: when the user is not premium and scanCount has reached
\* FREE_SCANS_LIMIT, handleAnalyze and handleAnalyzeText end at the preflight:
\* the upgrade prompt is shown, isLoading does not become true, progress and
\* the timer are untouched and no network call is made.
C3_PreflightStops ==
  [][(/\ last'.op \in {"HandleAnalyze", "HandleAnalyzeText"}
      /\ ~isPremium /\ scanCount >= FREE_SCANS_LIMIT)
     => (/\ showSubscriptionModal'
         /\ isLoading' = isLoading
         /\ progress' = progress
         /\ progressInterval' = progressInterval
         /\ timers' = timers
         /\ netCalls' = netCalls
         /\ tasks' = tasks)]_vars

\* handleAnalyze was denied before any request was made
C3_Witness ==
  /\ last.op = "HandleAnalyze"
  /\ showSubscriptionModal
  /\ ~isPremium /\ scanCount >= FREE_SCANS_LIMIT
  /\ ~isLoading /\ progress = 0 /\ timers = {} /\ netCalls = 0

\* C4: every gate (image analyze, text analyze, open camera, file select)
\* denies exactly when the user is not premium and scanCount >= FREE_SCANS_LIMIT.
C4_GateExact ==
  [][LET denied == ~isPremium /\ scanCount >= FREE_SCANS_LIMIT
     IN  /\ last'.op \in {"HandleAnalyze", "HandleAnalyzeText", "OpenCamera"}
            => ((showSubscriptionModal' /\ tasks' = tasks /\ isCameraOpen' = isCameraOpen)
                <=> denied)
         /\ Len(reads') > Len(reads) => ~denied]_vars

\* a premium user at the limit is let through the camera gate
C4_Witness ==
  /\ last.op = "OpenCamera"
  /\ isCameraOpen
  /\ isPremium /\ scanCount >= FREE_SCANS_LIMIT

\* C5: at most one classification request (image or text) is in flight at
\* any time.
C5_SingleFlight == Cardinality(InFlight) <= 1

\* the step is a run of saveToHistory
Saves == last'.writes > 0

\* C6: the history holds at most 30 items, newest first, and an append to a
\* history of 30 items drops the oldest-inserted item only and keeps the other
\* 29 in their order, whatever items were read by loadHistoryItem.
C6_Capacity ==
  [][/\ Len(history') <= HISTORY_LIMIT
     /\ \A i \in 1..(Len(history') - 1) : history'[i].id > history'[i + 1].id
     /\ (Saves /\ Len(history) = HISTORY_LIMIT)
          => Tail(history') = SubSeq(history, 1, HISTORY_LIMIT - 1)]_vars

\* the attempt whose invocation returns in this step
Returning(t) == tasks[t].pc # "done" /\ tasks'[t].pc = "done"

\* C7: when the first persist throws and the new item has a thumbnail,
\* saveToHistory retries once with the thumbnail removed (and only then); after
\* a retry the item is recorded without an image, in memory and, if the retry
\* succeeds, persisted; no exception leaves saveToHistory and the displayed
\* result is the scan's, as without the failure.
C7_PersistRetry ==
  [][Saves =>
       /\ last'.writes \in {1, 2}
       /\ ~last'.threw
       /\ last'.writes = 2
            => /\ history'[1].thumbnail = 0
               /\ storedHistory' \in {Stored(history'), storedHistory}
       /\ (last'.writes = 1 /\ storedHistory' # Stored(history'))
            => (history'[1].thumbnail = 0 /\ storedHistory' = storedHistory)
       /\ error' = error
       /\ \A t \in Scans : Returning(t)
            => result' = (IF tasks[t].pc = "resp" THEN Delivered(tasks[t], t) ELSE result)]_vars

\* the first persist threw, the retry without the thumbnail succeeded, and the
\* scan's result is still displayed
C7_Witness ==
  /\ last.writes = 2
  /\ history[1].thumbnail = 0
  /\ storedHistory = Stored(history)
  /\ result = history[1].result
  /\ error = ""

IsPlainList(l) == Len(l) > 0 /\ \A j \in 1..Len(l) : l[j].tag = "str"
IsDetailList(l) == \A j \in 1..Len(l) : l[j].tag = "obj"

\* C8: the history load turns every item whose ingredientsDetected is a list
\* of names into entries {name, status: HALAL}, names and order unchanged,
\* leaves items of the {name, status} shape or without ingredients as they
\* are, and migrating the loaded history again changes nothing.
C8_Migration ==
  (phase = "running" /\ storedHistory.state = "ok") =>
    LET items == storedHistory.items
    IN  /\ Len(history) = Len(items)
        /\ \A i \in 1..Len(items) :
             LET old == items[i].result.ingredients
                 new == history[i].result.ingredients
             IN  /\ history[i] = [items[i] EXCEPT !.result.ingredients = new]
                 /\ Len(new) = Len(old)
                 /\ IsPlainList(old) =>
                      \A j \in 1..Len(old) :
                        new[j] = [tag |-> "obj", name |-> old[j].name, status |-> HALAL]
                 /\ IsDetailList(old) => new = old
        /\ MigrateHistory(history) = history

\* a history of a legacy item (two names) and a current item was loaded
C8_Witness ==
  /\ phase = "running"
  /\ Len(history) = 2
  /\ storedHistory.items[1].result.ingredients = <<PlainName("sugar"), PlainName("gelatin")>>
  /\ storedHistory.items[2].result.ingredients = <<Detail("gelatin", DOUBTFUL)>>
  /\ history[1].result.ingredients = <<Detail("sugar", HALAL), Detail("gelatin", HALAL)>>

\* C9: every successful scan adds exactly one item to the history, and the
\* append removes no item but the oldest beyond 30.
C9_OneItemPerScan ==
  [][Saves => /\ \A i \in 1..Len(history) : history[i].id # history'[1].id
              /\ Tail(history') = Take(history, HISTORY_LIMIT - 1)]_vars

\* C10: when the owner unmounts while the first getUserMedia or the fallback
\* is pending, the stream that then resolves has its tracks stopped in the
\* same step, is not stored as the active stream and is not attached to the
\* video; a first request that fails after the unmount starts no fallback.
C10_LateStreamReleased ==
  [][/\ ~cam'.mounted => (cam'.live = {} /\ cam'.streamRef = 0 /\ cam'.video = 0)
     /\ (~cam.mounted /\ cam.pc = "first" /\ cam'.pc # cam.pc) => cam'.pc = "done"
     /\ (~cam.mounted /\ cam.pc = "fallback" /\ cam'.pc # cam.pc) => cam'.pc = "done"]_vars

\* the fallback stream resolved after the unmount and was stopped
C10_Witness ==
  /\ ~cam.mounted
  /\ cam.pc = "done"
  /\ cam.stoppedLate = {2}
  /\ cam.live = {} /\ cam.streamRef = 0 /\ cam.video = 0

\* the handler of attempt t takes its response in this step
Responds(t) == tasks[t].pc = "resp" /\ tasks'[t].pc # "resp"

\* C15: the handling of a 403 LIMIT_REACHED response does what the local
\* preflight does, for image and text attempts: the upgrade prompt is shown
\* and no error is set (error, result and images stay as they are), and the
\* attempt is over.
C15_RemoteQuotaAsLocal ==
  [][\A t \in Scans :
       (Responds(t) /\ tasks[t].status = 403) =>
         /\ showSubscriptionModal'
         /\ ~isLoading'
         /\ tasks'[t].pc = "done"
         /\ UNCHANGED <<error, result, images>>]_vars

\* C16: when an attempt ends in an error (a result with confidence 0, a
\* response that is not a 200, a thrown LIMIT_REACHED), progress is 0 at its
\* end.
C16_ProgressResetOnError ==
  [][\A t \in Scans :
       (Responds(t) /\ (tasks[t].status # 200 \/ IsFailure(tasks[t].res))) =>
         progress' = 0]_vars

\* C17: while an attempt is pending progress does not decrease; while a
\* request is in flight it is at most 90; it is 100 once the service has
\* given the handler its result.
C17_ProgressMonotone ==
  [][/\ \A t \in Scans : (t \in Pending /\ tasks'[t].pc \in PendingPcs) => progress' >= progress
     /\ \A t \in Scans : tasks'[t].pc \in InFlightPcs => progress' <= 90
     /\ \A t \in Scans : (Responds(t) /\ ~ServiceThrows(tasks[t].status)) => progress' = 100]_vars

\* C18: when the endpoint answers an image attempt with 413, the handler
\* switches to the low quality tier and issues no further request.
C18_PayloadTooLargeDowngrades ==
  [][\A t \in Scans :
       (Responds(t) /\ tasks[t].kind = "image" /\ tasks[t].status = 413) =>
         (useLowQuality' /\ netCalls' = netCalls)]_vars

\* C11: cleanupCamera stops every track of the stream it holds and nulls the
\* handle; run again, or with no stream held, it changes nothing; once the
\* session is torn down no stream it acquired has a live track.
C11_CleanupIdempotent ==
  /\ CleanupCamera(cam).streamRef = 0
  /\ CleanupCamera(cam).video = 0
  /\ CleanupCamera(cam).live = cam.live \ {cam.streamRef}
  /\ CleanupCamera(CleanupCamera(cam)) = CleanupCamera(cam)
  /\ (cam.streamRef = 0 => CleanupCamera(cam) = cam)
  /\ (~cam.mounted => (cam.live = {} /\ cam.streamRef = 0))

\* a session that held a stream (its torch capability was read) was torn down
C11_Witness ==
  /\ ~cam.mounted
  /\ cam.hasTorch
  /\ cam.stoppedLate = {}
  /\ cam.live = {} /\ cam.streamRef = 0

\* C12: while a capture is in flight every further captureImage call is
\* rejected, so at most one capture is pending; a capture is accepted only
\* when none is pending and no captureAndClose capture has completed; a
\* completed captureAndHold capture releases the lock.
C12_CaptureLock ==
  [][/\ Cardinality(cam'.shots) <= 1
     /\ (cam'.nshots # cam.nshots) => (cam.shots = {} /\ ~cam.closeDone)
     /\ (cam.mounted /\ cam'.delivered # cam.delivered /\ cam'.shots # cam.shots
           /\ ~cam'.closePending /\ cam'.shots = {}) => ~cam'.isCapturing]_vars

\* C13: a captureImage call is made only for a press in progress and once per
\* press: captureAndClose by the end of a press the long-press timeout has
\* not handled, captureAndHold (with the "image added" feedback) by the
\* timeout.
C13_OneRequestPerPress ==
  [][(cam'.nreq # cam.nreq) =>
       /\ cam.down
       /\ cam.reqs = 0
       /\ (cam'.req = "close" => ~cam.isLongPressHandled)
       /\ (cam'.req = "hold" => (cam'.isLongPressHandled /\ cam'.showAddedToast))]_vars

\* C14: without navigator.mediaDevices startCamera ends with an error and
\* requests no stream; captureImage changes nothing there; openNativeCamera
\* delivers at most one image per call through onCapture, none when
\* Camera.getPhoto is cancelled or fails, and leaves the error as it is.
C14_NoMediaApi ==
  [][~cam.mediaDevices =>
       /\ cam'.pc \notin {"first", "fallback"}
       /\ cam'.live = {} /\ cam'.stoppedLate = {} /\ cam'.streamRef = 0
       /\ (cam'.pc # cam.pc /\ cam'.pc = "done") => cam'.error # ""
       /\ \A shouldClose \in BOOLEAN :
            LET c == CaptureImage(cam, cam.isCapturing, shouldClose)
            IN  c.shots = cam.shots /\ c.isCapturing = cam.isCapturing /\ c.delivered = cam.delivered
       /\ cam'.shots = {} /\ ~cam'.isCapturing
       /\ (cam'.delivered # cam.delivered) =>
            (cam'.delivered = cam.delivered + 1 /\ cam'.nativePending = cam.nativePending - 1)
       /\ (cam'.nativePending # cam.nativePending) => cam'.error = cam.error]_vars

\* with no media API the system camera was opened twice: one photo was
\* delivered, the other call delivered none
C14_Witness ==
  /\ ~cam.mediaDevices
  /\ cam.mounted /\ cam.error # ""
  /\ cam.natives = 2 /\ cam.nativePending = 0
  /\ cam.delivered = 1

\* C19: an image within both limits is returned as the string it was given.
C19_SmallUnchanged ==
  (dsc.pc = "settled" /\ dsc.img.w <= dsc.maxWidth /\ dsc.img.h <= dsc.maxHeight)
    => dsc.out = dsc.img

\* an image exactly at both limits was returned as it was
C19_Witness ==
  /\ dsc.pc = "settled" /\ dsc.loads
  /\ dsc.img.w = dsc.maxWidth /\ dsc.img.h = dsc.maxHeight
  /\ dsc.maxWidth = MaxLimit
  /\ dsc.out = dsc.img

\* C20: an image beyond a limit that loads and gets a canvas comes out within
\* both limits, each dimension the rounded product with the one ratio
\* min(maxWidth / width, maxHeight / height), and each at least 1.
C20_ScaledWithinBounds ==
  (dsc.pc = "settled" /\ dsc.loads /\ dsc.ctx
     /\ (dsc.img.w > dsc.maxWidth \/ dsc.img.h > dsc.maxHeight))
    => /\ dsc.out.w <= dsc.maxWidth /\ dsc.out.h <= dsc.maxHeight
       /\ dsc.out.w = RoundScaled(dsc.img.w, Ratio(dsc.img, dsc.maxWidth, dsc.maxHeight))
       /\ dsc.out.h = RoundScaled(dsc.img.h, Ratio(dsc.img, dsc.maxWidth, dsc.maxHeight))
       /\ dsc.out.w >= 1 /\ dsc.out.h >= 1

Max2(a, b) == IF a >= b THEN a ELSE b
Abs(x) == IF x >= 0 THEN x ELSE 0 - x

\* out keeps the aspect ratio of src within rounding: its height is within
\* one half of the height that its width gives
KeepsRatio(src, out) == 2 * Abs(out.h * src.w - src.h * out.w) <= src.w

\* C21: the copy compressImage prepares for a quality tier has no side above
\* the tier's bound (1024 high, 800 low), the thumbnail it prepares for the
\* history has no side above 200, and both keep the aspect ratio of their
\* source within rounding.
C21_CopiesBounded ==
  /\ (util.pc \in {"thumb", "stored"} /\ util.copyDrawn) =>
       /\ Max2(util.copy.w, util.copy.h) <= TierWidth(util.low)
       /\ KeepsRatio(util.src, util.copy)
  /\ (util.pc = "stored" /\ util.thumbDrawn) =>
       /\ Max2(util.thumb.w, util.thumb.h) <= ThumbWidth
       /\ KeepsRatio(util.copy, util.thumb)
\* the image enhanceImage gave was drawn and processed
Enhanced == util.pc = "enhanced" /\ util.drawn

\* C22: enhanceImage gives an image of the dimensions of its input; on a
\* uniform gray input the contrast step stores, for the value old, the
\* integer nearest to (old - 128) * 1.25 + 128 within 0..255 (a half goes to
\* the even neighbour): 128 stays 128, no value comes closer to 128, and the
\* values 126..130 stay as they are; the sharpening step leaves the uniform
\* image as the contrast step gave it.
C22_EnhanceUniform ==
  /\ util.pc = "enhanced" => (util.outW = util.w /\ util.outH = util.h)
  /\ Enhanced =>
       /\ \A y \in 1..util.h : \A x \in 1..util.w :
            LET new == util.contrasted[y][x]
                exact == ContrastQuarters(util.v)
            IN  /\ new \in 0..255
                /\ (exact >= 0 /\ exact <= 1020) => Abs(4 * new - exact) <= 2
                /\ exact < 0 => new = 0
                /\ exact > 1020 => new = 255
                /\ Abs(new - 128) >= Abs(util.v - 128)
                /\ util.v = 128 => new = 128
                /\ util.v \in 126..130 => new = util.v
       /\ util.out = util.contrasted

\* a 3 x 3 image of gray 130 was enhanced: 130.5 is stored as 130
C22_Witness ==
  /\ Enhanced
  /\ util.w = 3 /\ util.h = 3 /\ util.v = 130
  /\ util.out[2][2] = 130

\* C22 as it was stated: the contrast step moves every value but 128 away
\* from 128 by 1.25 times its distance (until clamped to 0..255).
C22_ExactlyLinear ==
  Enhanced =>
    \A y \in 1..util.h : \A x \in 1..util.w :
      LET new == util.contrasted[y][x]
          exact == ContrastQuarters(util.v)
      IN  /\ util.v = 128 => new = 128
          /\ (util.v # 128 /\ exact >= 0 /\ exact <= 1020) => 4 * new = exact
          /\ exact < 0 => new = 0
          /\ exact > 1020 => new = 255
\* an entry that getItem can decode
Readable(entry) == entry.present /\ entry.b64 /\ entry.uri /\ entry.json

\* the persisted history is the JSON of a list of well-formed items
GoodHistory(st) == st.state = "ok" /\ \A i \in 1..Len(st.items) : WellFormed(st.items[i])

\* C23: reading the persisted state falls back to the defaults on
\* corruption: the mount effect's getItem('isPremium', false) gives false and
\* the offline path's getItem('scanCount', 0) gives 0 when the entry is
\* missing, not base64, not URI-encoded or not JSON, and the history load
\* leaves the history empty when the persisted history is not JSON or not a
\* list of well-formed items.
C23_CorruptionFallsBack ==
  [][/\ (phase = "new" /\ phase' = "running") =>
          /\ (~Readable(secure.isPremium) => isPremium' = FALSE)
          /\ (storedHistory.state # "absent" /\ ~GoodHistory(storedHistory)) => history' = <<>>
     /\ (last'.op = "BootOffline" /\ ~Readable(secure.scanCount)) => scanCount' = 0]_vars
\* C24: the pending image list never holds more than MAX_IMAGES_PER_SCAN
\* images, whatever the interleaving of captures and file selections, and the
\* request of an image attempt carries between 1 and MAX_IMAGES_PER_SCAN
\* images.
C24_AtMostFourImages ==
  /\ Len(images) <= MAX_IMAGES_PER_SCAN
  /\ \A t \in Scans : tasks[t].kind = "image" =>
       (Len(tasks[t].imgs) >= 1 /\ Len(tasks[t].imgs) <= MAX_IMAGES_PER_SCAN)
\* C25: the locally cached scan count survives a restart: when a run without
\* an identity ended with a scanCount (what the offline path restored plus
\* its local increments), the offline path of the next run restores at least
\* that count.
C25_CountSurvivesRestart ==
  (last.op = "BootOffline" /\ run.n > 1 /\ run.uid = "") => scanCount >= run.count
\* C26: a 504 response ends the attempt with an outcome of its own: the error
\* shown differs from the one a 500 gives and from the one an unknown error
\* gives; no history entry is written and no quota counter changes.
C26_TimeoutDistinct ==
  [][\A t \in Scans :
       (Responds(t) /\ tasks[t].status = 504) =>
         /\ error' # ""
         /\ error' # ServiceResult(t, 500, NoResult).reason
         /\ error' # UnexpectedMessage
         /\ UNCHANGED <<history, storedHistory, scanCount, dbRow>>]_vars
\* the errors startCamera sets when no stream could be acquired
AcquisitionErrors == {"NotAllowedError", "NotFoundError", "other"}

\* C27: startCamera asks for a rear-facing stream first and, when that is
\* rejected while the owner is mounted, once more with generic constraints:
\* at most two getUserMedia calls per open, the second only after the first
\* was rejected; an acquisition error is set only when both were rejected; a
\* stream is held, with no error set, when either resolved for a mounted
\* owner.
C27_TwoAttempts ==
  [][/\ cam'.asked \in {<<>>, <<"environment">>, <<"environment", "generic">>}
     /\ cam'.failed <= Len(cam'.asked)
     /\ Len(cam'.asked) = 2 => cam'.failed >= 1
     /\ (cam.pc = "first" /\ cam'.pc # "first") =>
          IF cam'.failed > cam.failed
          THEN /\ cam'.error = cam.error /\ cam'.streamRef = 0
               /\ IF cam.mounted
                  THEN cam'.pc = "fallback" /\ cam'.asked = <<"environment", "generic">>
                  ELSE cam'.pc = "done" /\ cam'.asked = cam.asked
          ELSE /\ cam'.pc = "done" /\ cam'.asked = cam.asked
               /\ cam.mounted => (cam'.streamRef = 1 /\ 1 \in cam'.live /\ cam'.error = "")
     /\ (cam.pc = "fallback" /\ cam'.pc # "fallback") =>
          /\ cam'.pc = "done" /\ cam'.asked = cam.asked
          /\ IF cam'.failed > cam.failed
             THEN cam'.error \in AcquisitionErrors /\ cam'.streamRef = 0
             ELSE cam.mounted => (cam'.streamRef = 2 /\ 2 \in cam'.live /\ cam'.error = "")
     /\ cam'.error \in AcquisitionErrors => (cam'.failed = 2 /\ cam'.live = {})
     /\ cam'.streamRef # 0 => cam'.error = ""]_vars

\* the first request was rejected and the fallback gave the stream held
C27_Witness ==
  /\ cam.mounted
  /\ cam.asked = <<"environment", "generic">>
  /\ cam.failed = 1
  /\ cam.streamRef = 2 /\ 2 \in cam.live
  /\ cam.error = ""

\* C28: while a stream is held, hasTorch, hasZoom and maxZoom tell what its
\* track offers, whichever request gave the stream, and no error is set.
C28_CapabilitiesProbed ==
  cam.streamRef # 0 =>
    /\ cam.hasTorch = cam.caps.torch
    /\ cam.hasZoom = (cam.caps.zoomMax > 0)
    /\ cam.caps.zoomMax > 0 => cam.maxZoom = cam.caps.zoomMax
    /\ cam.error = ""
\* C29: a progress timer is running only while the request of the attempt
\* that set it is in flight, and it is the one progressInterval refers to;
\* so when no attempt is in flight (after a success, a reported failure, a
\* thrown error, resetApp, the unmount) no timer is running.
C29_NoTimerLeak ==
  /\ \A tm \in timers : tm.id = progressInterval /\ tasks[tm.id].pc \in InFlightPcs
  /\ InFlight = {} => timers = {}

\* unmounted, two attempts were made and have ended, one with a result in
\* the history and one without, and no timer is left
C29_Witness ==
  /\ phase = "unmounted"
  /\ timers = {}
  /\ Cardinality(Started) = 2
  /\ \A t \in Started : tasks[t].pc = "done"
  /\ Len(history) = 1
\* attempt t's response is delivered and carries a result with confidence > 0
Succeeds(t) ==
  /\ tasks[t].pc = "resp" /\ tasks'[t].pc # "resp"
  /\ ~ServiceThrows(tasks[t].status)
  /\ ~IsFailure(Delivered(tasks[t], t))
\* the step hands attempt t's result to the history
Records(t) == history' # <<>> /\ history'[1].result.scan = t
\* the step leaves the history and what is persisted of it
NoSave == history' = history /\ storedHistory' = storedHistory

IdentityFails == boot.pc = "auth" /\ boot'.pc = "done"
FetchFails ==
  \/ last'.op = "BootStatsFailed"
  \/ \E t \in Scans : /\ tasks[t].pc = "refreshResp" /\ tasks'[t].pc # "refreshResp"
                       /\ tasks[t].snapKind = "error"

\* C31: a failure of the identity resolution or of the remote fetch leaves
\* scanCount and isPremium as they were, so the gate answers as before.
C31_FailureKeepsSnapshot ==
  [][(IdentityFails \/ FetchFails) =>
       /\ scanCount' = scanCount
       /\ isPremium' = isPremium
       /\ GateDenied(isPremium', scanCount') = GateDenied(isPremium, scanCount)]_vars
\* attempt t has applied its entitlement update: its thumbnail is being made
\* or its result is in the history
Updated(t) == tasks[t].pc = "thumb" \/ \E i \in 1..Len(history) : history[i].id = t
\* the step is the local increment of attempt t
LocalIncrement(t) == Succeeds(t) /\ tasks'[t].pc # "refreshReq" /\ scanCount' = scanCount + 1
\* the step applies what the refresh of attempt t read
AppliesRefresh(t) == tasks[t].pc = "refreshResp" /\ tasks'[t].pc # "refreshResp"

\* C32: the local increment is made only when no identity exists as the scan
\* completes, and the refresh of a scan started earlier does not take the
\* count back once a scan started later has applied its own update.
C32_ByRecency ==
  [][\A t \in Scans :
       /\ LocalIncrement(t) => userId = ""
       /\ (AppliesRefresh(t) /\ \E t2 \in Scans : t2 > t /\ Updated(t2)) =>
            scanCount' >= scanCount]_vars
\* C33: an image attempt issues its one network call when its images are
\* prepared, the request carries all of the attempt's images in their order,
\* the identity and the language, and no other step issues a call.
C33_OneCompleteCall ==
  [][/\ netCalls' # netCalls =>
          /\ netCalls' = netCalls + 1
          /\ \E t \in Scans : tasks[t].pc = "compress" /\ tasks'[t].pc = "fetch"
     /\ \A t \in Scans :
          (tasks[t].pc = "compress" /\ tasks'[t].pc # "compress") =>
            /\ tasks'[t].pc = "fetch"
            /\ netCalls' = netCalls + 1
            /\ tasks'[t].sent.images = tasks[t].imgs
            /\ tasks'[t].sent.userId = (IF tasks[t].uid = "" THEN "anonymous" ELSE tasks[t].uid)
            /\ "language" \in DOMAIN tasks'[t].sent
            /\ tasks'[t].sent.language = run.language]_vars
\* what the render shows once nothing is loading: the result card, or the
\* error panel with its retry and cancel buttons, which is inside the block
\* rendered for images.length > 0 || result
ResultShown == ~isLoading /\ HasResult
ErrorPanelShown == ~isLoading /\ error # "" /\ (Len(images) > 0 \/ HasResult)

\* C34: every attempt that passed the preflight comes to its end with
\* isLoading false and the result or the error panel on the screen.
C34_ReturnsToIdle ==
  \A t \in Scans :
    (tasks[t].pc \in PendingPcs) ~>
      (tasks[t].pc \in {"thumb", "done"} /\ (ResultShown \/ ErrorPanelShown))
\* the value of channel c of the pixel (x, y) of a w-wide image, all from 0
Channel(d, w, x, y, c) == d[(y * w + x) * 4 + c + 1]
Clamp255(v) == IF v < 0 THEN 0 ELSE IF v > 255 THEN 255 ELSE v

\* C35: after enhanceImage, R, G and B of every interior pixel are
\* clamp(5*c - left - right - up - down, 0, 255) over the contrast-adjusted
\* values as they were before any pixel was sharpened; the border pixels hold
\* their contrast-adjusted values; every alpha is the one of the input.
C35_SharpenKernel ==
  util.pc = "dataEnhanced" =>
    \A y \in 0..(util.h - 1) : \A x \in 0..(util.w - 1) :
      LET C(xx, yy, c) == Channel(util.contrasted, util.w, xx, yy, c)
      IN  /\ Channel(util.out, util.w, x, y, 3) = Channel(util.data, util.w, x, y, 3)
          /\ \A c \in 0..2 :
               /\ C(x, y, c) = ToUint8Clamp(ContrastQuarters(Channel(util.data, util.w, x, y, c)))
               /\ Channel(util.out, util.w, x, y, c) =
                    IF 0 < x /\ x < util.w - 1 /\ 0 < y /\ y < util.h - 1
                    THEN Clamp255(5 * C(x, y, c) - C(x - 1, y, c) - C(x + 1, y, c)
                                  - C(x, y - 1, c) - C(x, y + 1, c))
                    ELSE C(x, y, c)

\* an enhanced image with two interior pixels side by side, both changed by
\* the sharpening in a channel and neither clamped there
C35_Witness ==
  /\ util.pc = "dataEnhanced"
  /\ util.w = 4 /\ util.h = 3
  /\ \E c \in 0..2 : \A x \in {1, 2} :
       /\ Channel(util.out, 4, x, 1, c) # Channel(util.contrasted, 4, x, 1, c)
       /\ Channel(util.out, 4, x, 1, c) \in 1..254
\* C36: the remote scan_count never decreases, and once the requests that
\* arrived have all been answered it is the initial count plus the number of
\* classifications answered.
C36_IncrementOnly ==
  [][/\ dbRow'.scan_count >= dbRow.scan_count
     /\ InService' = {} =>
          dbRow'.scan_count = (SERVER_FREE_LIMIT - 1) + Cardinality(Answered')]_vars

\* C37: a request of a non-premium identity that finds scan_count >= 3 is
\* answered 403, and such an identity, with 2 classifications behind it, is
\* answered at most one more.
C37_LimitEnforced ==
  [][/\ \A t \in Scans :
          (/\ tasks[t].pc = "srvCheck" /\ tasks'[t].pc # "srvCheck"
           /\ ~dbRow.is_premium /\ dbRow.scan_count >= SERVER_FREE_LIMIT) =>
            (tasks'[t].pc = "resp" /\ tasks'[t].status = 403)
     /\ ~dbRow'.is_premium =>
          (SERVER_FREE_LIMIT - 1) + Cardinality(Answered') <= SERVER_FREE_LIMIT]_vars
\* the client's snapshot is the remote record of a non-premium identity
SnapshotCurrent ==
  /\ userId # "" /\ dbRow.exists /\ ~dbRow.is_premium
  /\ scanCount = dbRow.scan_count /\ isPremium = dbRow.is_premium

\* C38: a request of an identified attempt, made by a client whose snapshot
\* is the remote record and whose gate lets a scan through, is not answered
\* 403 by the endpoint.
C38_GatesAgree ==
  [][\A t \in Scans :
       (/\ tasks[t].pc = "fetch" /\ tasks'[t].pc = "resp"
        /\ tasks[t].uid # ""
        /\ SnapshotCurrent
        /\ ~GateDenied(isPremium, scanCount)) =>
         tasks'[t].status # 403]_vars

\* the state resetApp leaves: no images, no result, no error, progress 0
EmptyState == images = <<>> /\ ~HasResult /\ error = "" /\ progress = 0

\* a handler that was waiting goes on in this step: the response of the
\* request, the refreshed statistics, or the thumbnail
Resumes ==
  \E t \in Scans : tasks[t].pc \in {"resp", "refreshResp", "thumb"} /\ tasks'[t] # tasks[t]

\* C39: after resetApp the app is in the empty state, and when the handler of
\* a request that was started before the reset goes on, it sets no result and no
\* error, does not raise the progress and adds no history item.
C39_ResetHolds ==
  [][last.op = "ResetApp" =>
       /\ EmptyState
       /\ Resumes => (EmptyState' /\ history' = history)]_vars

\* the step before was one in which saveToHistory ran and returned
SaveReturned == last.op \in {"TextResponse", "RefreshApply", "ThumbDone"} /\ ~last.threw

\* C40: after saveToHistory returns, the history in memory is the persisted
\* history, item for item, whether or not a write failed.
C40_MemoryIsPersisted == SaveReturned => storedHistory = Stored(history)

====
